---- MODULE Spec2Model ----
(***************************************************************************)
(* Model of three routines of the iLO REST utility:                        *)
(*   - IscsiConfigCommand.bootattemptcounter  (attempt-slot allocator)     *)
(*   - IscsiConfigCommand.pcidevicehelper     (NIC / BIOS correlation)     *)
(*   - SetCommand.setfunction                 (path-to-patch builder)      *)
(* Python strings are modelled as sequences of one-character strings, so   *)
(* that split, strip and lower are computed and not assumed.               *)
(***************************************************************************)
EXTENDS Integers, Sequences, FiniteSets, TLC

VARIABLES
    pc,            \* the command that is running, or "done"
    bootsources,   \* the iSCSI boot-source records handed to bootattemptcounter
    allocres,      \* outcome of bootattemptcounter
    devicealloc0,  \* the candidate list as the caller built it (history)
    devicealloc,   \* the caller's candidate list (mutated in place)
    bios,          \* BIOS settings snapshot: a function from setting name to value
    nicsources,    \* TRUE when the iSCSI resource can be read and has iSCSINicSources
    disabledlist,  \* the list pcidevicehelper returns
    pcires,        \* outcome of pcidevicehelper
    selector,      \* rdmc.app.selector
    options,       \* parsed options of the set command
    args,          \* the tokens of the set command line
    argidx,        \* 0 before the loop, then the index of the next token
    processed,     \* one entry per token the loop has handled (history)
    setres,        \* outcome of setfunction
    committed,     \* TRUE once commitfunction was invoked
    rebooted,      \* TRUE once the reboot command was run
    remote0,       \* the boot-source records the iSCSI settings resource started with
    remote,        \* the boot-source records the iSCSI settings resource holds
    etag,          \* the ETag of the iSCSI settings resource (a version number)
    basedefault,   \* BaseConfigs[0].default[iSCSIBootSources] of the server
    pcideviceslist, \* the PCI devices of the server
    client,        \* per iscsiconfig client: the add or delete in progress
    lastop,        \* the add or delete that ended last, with its write (history)
    pcisettingsmap, \* BiosPciSettingsMappings as read from the server
    caller,        \* the helper that builds the candidate list: add, list or default
    collected,     \* the candidate list the helper has built
    collectres,    \* outcome of building the candidate list
    printed,       \* the NIC lines the default listing has printed
    finallist,     \* devicealloc_final as add computes it
    listres,       \* outcome of the default listing
    instances0,    \* the instances of the monolith when loadset raised (history)
    instances,     \* the instances of the monolith with their pending patches
    valerrs,       \* excp.get_errors() of the ValidationError: the sel of each error
    runopts,       \* options and number of arguments of one iscsiconfig run
    runlog,        \* what the run has invoked so far, in order (history)
    runres,        \* outcome of IscsiConfigCommand.run
    listfile,      \* the file "iscsiconfig --list -f" wrote or the operator edited
    written,       \* TRUE when listfile was written by --list in this run
    modbody,       \* the record sequence modify submitted
    modres         \* outcome of modifyoptionhelper

vars == <<pc, bootsources, allocres, devicealloc0, devicealloc, bios, nicsources,
          disabledlist, pcires, selector, options, args, argidx, processed,
          setres, committed, rebooted, remote0, remote, etag, basedefault,
          pcideviceslist, client, lastop,
          pcisettingsmap, caller, collected, collectres,
          printed, finallist, listres, instances0, instances, valerrs,
          runopts, runlog, runres, listfile, written, modbody, modres>>

allocvars == <<bootsources, allocres>>
pcivars == <<devicealloc0, devicealloc, bios, nicsources, disabledlist, pcires>>
setvars == <<selector, options, args, argidx, processed, setres,
             committed, rebooted>>
iscsivars == <<remote0, remote, etag, basedefault, pcideviceslist, client, lastop>>
corevars == <<allocvars, pcivars, setvars, iscsivars>>
mapvars == <<pcisettingsmap, caller, collected, collectres>>
listvars == <<printed, finallist, listres>>
valvars == <<instances0, instances, valerrs>>
runvars == <<runopts, runlog, runres>>
modvars == <<listfile, written, modbody, modres>>
extvars == <<mapvars, listvars, valvars, runvars, modvars>>
notmapvars == <<corevars, listvars, valvars, runvars, modvars>>
notrunvars == <<corevars, mapvars, listvars, valvars, modvars>>
notmodvars == <<allocvars, setvars, remote0, basedefault, client, lastop,
                mapvars, listvars, valvars, runvars>>
notlistvars == <<allocvars, setvars, remote0, remote, etag, basedefault, client,
                 lastop, mapvars, valvars, runvars, modvars>>
notvalvars == <<corevars, mapvars, listvars, runvars, modvars>>

(***************************************************************************)
(* Bounds                                                                  *)
(***************************************************************************)
MaxSize == 4       \* longest boot-source sequence
MaxInst == 4       \* largest attempt instance stored in a record
MaxCands == 3      \* longest candidate list
MaxSegs == 3       \* most path segments in a set token
MaxSlots == 3      \* boot-source records of a server whose records start free
MaxEntries == 2     \* entries of BiosPciSettingsMappings
MaxAssoc == 2       \* associations of one mapping entry
MaxPatches == 3     \* pending patches on one instance of the monolith
MaxErrs == 2        \* errors carried by one ValidationError
MaxArgs == 2        \* positional arguments of one iscsiconfig run
MaxFile == 2        \* entries of a hand-written modify file
MaxWrites == 3     \* writes to the iSCSI settings resource before clients stop

(***************************************************************************)
(* Generic sequence helpers                                                *)
(***************************************************************************)
RECURSIVE SeqsUpTo(_, _)
SeqsUpTo(S, n) ==
    IF n = 0 THEN {<<>>}
    ELSE LET shorter == SeqsUpTo(S, n - 1)
         IN shorter \cup {Append(s, x) : s \in {t \in shorter : Len(t) = n - 1}, x \in S}

Range(s) == {s[i] : i \in 1..Len(s)}

(***************************************************************************)
(* Attempt-slot allocator                                                  *)
(***************************************************************************)
\* An attempt instance is None (<<>>) or an integer n (<<n>>).
None == <<>>
Some(n) == <<n>>

\* Truthiness that tests "is not None" only, so that 0 counts as set.
Truthy_notNone(inst) == inst # None

\* Python truthiness of an attempt instance: None and 0 are falsy.
Truthy(inst) == inst # None /\ inst[1] # 0

BootSource(inst) ==
    [iSCSIAttemptInstance |-> inst, iSCSIAttemptName |-> "", iSCSINicSource |-> ""]

\* count.append(int(item[iscsiattemptinstance])) for every truthy instance
RECURSIVE CountList(_)
CountList(srcs) ==
    IF srcs = <<>> THEN <<>>
    ELSE LET rest == CountList(Tail(srcs))
             inst == Head(srcs).iSCSIAttemptInstance
         IN IF Truthy(inst) THEN <<inst[1]>> \o rest ELSE rest

\* list.sort(): ascending, duplicates kept
RECURSIVE InsertSorted(_, _)
InsertSorted(x, s) ==
    IF s = <<>> THEN <<x>>
    ELSE IF x <= Head(s) THEN <<x>> \o s
    ELSE <<Head(s)>> \o InsertSorted(x, Tail(s))

\* The count list left in record order.
SortAsc_unsorted(s) == s

RECURSIVE SortAsc(_)
SortAsc(s) == IF s = <<>> THEN <<>> ELSE InsertSorted(Head(s), SortAsc(Tail(s)))

Raised(err) == [kind |-> "raise", err |-> err, val |-> 0]
Returned(n) == [kind |-> "return", err |-> "", val |-> n]
ReturnedNone == [kind |-> "returnNone", err |-> "", val |-> 0]
NotRun == [kind |-> "notrun", err |-> "", val |-> 0]

\* The walk returning iterate instead of iterate + 1.
RECURSIVE GapWalk_noPlusOne(_, _, _, _)
GapWalk_noPlusOne(count, size, i, iterate) ==
    IF i > size THEN ReturnedNone
    ELSE IF iterate < Len(count) /\ i = count[iterate + 1]
         THEN GapWalk_noPlusOne(count, size, i + 1, iterate + 1)
         ELSE Returned(iterate)

\* for i in range(1, size + 1): match count[iterate] or return iterate + 1;
\* falling off the loop returns None.
RECURSIVE GapWalk(_, _, _, _)
GapWalk(count, size, i, iterate) ==
    IF i > size THEN ReturnedNone
    ELSE IF iterate < Len(count) /\ i = count[iterate + 1]
         THEN GapWalk(count, size, i + 1, iterate + 1)
         ELSE Returned(iterate + 1)

\* The allocator without the size == len(count) test.
bootattemptcounter_noCountCheck(srcs) ==
    LET size == Len(srcs)
        count == CountList(srcs)
    IN IF Len(count) > 0
       THEN GapWalk(SortAsc(count), size, 1, 0)
       ELSE Returned(1)

bootattemptcounter(srcs) ==
    LET size == Len(srcs)
        count == CountList(srcs)
    IN IF size = Len(count)
       THEN Raised("NicMissingOrConfigurationError")
       ELSE IF Len(count) > 0
            THEN GapWalk(SortAsc(count), size, 1, 0)
            ELSE Returned(1)

InstVals == {None} \cup {Some(n) : n \in (-1)..MaxInst}

AllocInputs == {[i \in 1..Len(s) |-> BootSource(s[i])] : s \in SeqsUpTo(InstVals, MaxSize)}

(***************************************************************************)
(* Python string operations on sequences of one-character strings          *)
(***************************************************************************)
UpperChars == <<"A","B","C","D","E","F","G","H","I","J","K","L","M",
                "N","O","P","Q","R","S","T","U","V","W","X","Y","Z">>
LowerChars == <<"a","b","c","d","e","f","g","h","i","j","k","l","m",
                "n","o","p","q","r","s","t","u","v","w","x","y","z">>

\* str.lower() on one character
LowerChar(c) ==
    IF \E i \in 1..26 : UpperChars[i] = c
    THEN LowerChars[CHOOSE i \in 1..26 : UpperChars[i] = c]
    ELSE c

\* str.lower()
Lower(s) == [i \in 1..Len(s) |-> LowerChar(s[i])]

\* "c" in s, for a single character c
HasChar(s, c) == \E i \in 1..Len(s) : s[i] = c

\* s.startswith(p)
StartsWith(s, p) == Len(s) >= Len(p) /\ SubSeq(s, 1, Len(p)) = p

\* p in s, for a substring p
HasSubstr(s, p) ==
    \E i \in 1..(Len(s) + 1) :
        i + Len(p) - 1 <= Len(s) /\ SubSeq(s, i, i + Len(p) - 1) = p

\* s.lstrip(chars), s.rstrip(chars), s.strip(chars)
RECURSIVE LStrip(_, _)
LStrip(s, chars) ==
    IF s # <<>> /\ Head(s) \in chars THEN LStrip(Tail(s), chars) ELSE s

RECURSIVE RStrip(_, _)
RStrip(s, chars) ==
    IF s # <<>> /\ s[Len(s)] \in chars
    THEN RStrip(SubSeq(s, 1, Len(s) - 1), chars)
    ELSE s

Strip(s, chars) == RStrip(LStrip(s, chars), chars)

Whitespace == {" ", "\t", "\n", "\r", "\f"}
QuoteChars == {"\"", "'"}

\* s.split(c): every occurrence of c separates two pieces, so the result
\* has one piece more than s has occurrences of c.
RECURSIVE SplitFrom(_, _, _)
SplitFrom(s, c, cur) ==
    IF s = <<>> THEN <<cur>>
    ELSE IF Head(s) = c THEN <<cur>> \o SplitFrom(Tail(s), c, <<>>)
    ELSE SplitFrom(Tail(s), c, Append(cur, Head(s)))

Split(s, c) == SplitFrom(s, c, <<>>)

\* s.split(c, 1): split at the first occurrence only
Split1(s, c) ==
    IF HasChar(s, c)
    THEN LET i == CHOOSE k \in 1..Len(s) :
                      s[k] = c /\ \A j \in 1..(k - 1) : s[j] # c
         IN <<SubSeq(s, 1, i - 1), SubSeq(s, i + 1, Len(s))>>
    ELSE <<s>>

\* s[1:-1]
Inner(s) == SubSeq(s, 2, Len(s) - 1)

\* list[::-1]
Reverse(s) == [i \in 1..Len(s) |-> s[Len(s) + 1 - i]]

(***************************************************************************)
(* SetCommand.setfunction: the path-to-patch builder                       *)
(***************************************************************************)
\* Values of a patch: a boolean, a string, a list of strings, or a
\* single-key mapping {key: val}.
Bool(b) == [kind |-> "bool", b |-> b]
Str(s) == [kind |-> "str", s |-> s]
List(l) == [kind |-> "list", l |-> l]
Map(k, v) == [kind |-> "map", key |-> k, val |-> v]

sTrue == <<"t","r","u","e">>
sFalse == <<"f","a","l","s","e">>
sYes == <<"y","e","s">>
sAttributes == <<"a","t","t","r","i","b","u","t","e","s">>
sAttributesSlash == <<"A","t","t","r","i","b","u","t","e","s","/">>
sBiosDot == <<"b","i","o","s",".">>
sAdminPassword == <<"a","d","m","i","n","p","a","s","s","w","o","r","d">>
sOldAdminPassword == <<"o","l","d">> \o sAdminPassword

\* str(val) for the value computed inside the try block
PyStr(val) ==
    IF val.kind = "bool"
    THEN (IF val.b THEN <<"T","r","u","e">> ELSE <<"F","a","l","s","e">>)
    ELSE val.s

\* if not "." in selector: selector = selector + "."
selectorDotted(sel) == IF HasChar(sel, ".") THEN sel ELSE Append(sel, ".")

\* The BIOS test reading the selector as it was before the "." was appended.
selectorRead_stale(before, after) == before

\* the selector the BIOS test reads: rdmc.app.selector as the assignment
\* just above it left it
selectorRead(before, after) == after

\* if selector.lower().startswith("bios."): if "attributes" not in arg.lower():
\*     arg = "Attributes/" + arg
argPrefixed(sel, arg) ==
    IF StartsWith(Lower(sel), sBiosDot) /\ ~HasSubstr(Lower(arg), sAttributes)
    THEN sAttributesSlash \o arg
    ELSE arg

\* The boolean test made on the text as typed, without lower().
valParsed_caseSensitive(raw) ==
    LET val == Strip(raw, QuoteChars)
    IN IF val = sTrue \/ val = sFalse
       THEN Bool(val \in {sYes, sTrue, <<"t">>, <<"1">>})
       ELSE Str(val)

\* val after strip("\"'") and the boolean test
valParsed(raw) ==
    LET val == Strip(raw, QuoteChars)
    IN IF Lower(val) = sTrue \/ Lower(val) = sFalse
       THEN Bool(Lower(val) \in {sYes, sTrue, <<"t">>, <<"1">>})
       ELSE Str(val)

\* newargs: the path segments, or the empty list for a one-level path
newargsOf(arg, sel, val) ==
    IF HasChar(sel, "/") /\ ~HasChar(PyStr(val), "/")
    THEN Split(sel, "/")
    ELSE IF HasChar(sel, "/")
         THEN Split(Split1(arg, "=")[1], "/")
         ELSE <<>>

\* The list split applied to the whole literal, brackets included.
valListed_keepBrackets(val) ==
    IF val.kind # "bool" /\ val.s # <<>>
       /\ val.s[1] = "[" /\ val.s[Len(val.s)] = "]"
    THEN List(Split(val.s, ","))
    ELSE val

\* if not isinstance(val, bool): if val: if val[0] == "[" and val[-1] == "]":
\*     val = val[1:-1].split(",")
valListed(val) ==
    IF val.kind # "bool" /\ val.s # <<>>
       /\ val.s[1] = "[" /\ val.s[Len(val.s)] = "]"
    THEN List(Split(Inner(val.s), ","))
    ELSE val

\* for key in newargs[:-1][::-1]: payload = {key: payload}
RECURSIVE WrapAll(_, _)
WrapAll(keys, payload) ==
    IF keys = <<>> THEN payload
    ELSE WrapAll(Tail(keys), Map(Head(keys), payload))

\* The wrapping loop run over newargs[:-1] in path order (no [::-1]).
payloadOf_unreversed(newargs, sel, val) ==
    IF newargs # <<>>
    THEN WrapAll(SubSeq(newargs, 1, Len(newargs) - 1),
                 Map(newargs[Len(newargs)], val))
    ELSE Map(sel, val)

payloadOf(newargs, sel, val) ==
    IF newargs # <<>>
    THEN WrapAll(Reverse(SubSeq(newargs, 1, Len(newargs) - 1)),
                 Map(newargs[Len(newargs)], val))
    ELSE Map(sel, val)

\* The body of the try block and the payload construction for one token.
\* ok = FALSE stands for the except branch (InvalidCommandLineError).
buildToken(sel0, arg0) ==
    LET arg == argPrefixed(sel0, arg0)
        parts == Split(arg, "=")
    IN IF Len(parts) # 2
       THEN [ok |-> FALSE, sel |-> <<>>, seldict |-> Str(<<>>)]
       ELSE LET sel == Lower(Strip(parts[1], Whitespace))
                val == valParsed(parts[2])
                newargs == newargsOf(arg, sel, val)
            IN [ok |-> TRUE, sel |-> sel,
                seldict |-> payloadOf(newargs, sel, valListed(val))]

\* args[count] = arg[1:-1] for a token wrapped in quotes, None for an
\* empty quoted token; the loop variable arg keeps the original token.
NoneTok == <<"None">>
argsQuoteFixed(arg) ==
    IF Len(arg) > 2
    THEN (IF (arg[1] = "\"" /\ arg[Len(arg)] = "\"") \/ (arg[1] = "'" /\ arg[Len(arg)] = "'")
          THEN Inner(arg) ELSE arg)
    ELSE IF Len(arg) = 2
         THEN (IF (arg[1] = "\"" /\ arg[2] = "\"") \/ (arg[1] = "'" /\ arg[2] = "'")
               THEN NoneTok ELSE arg)
         ELSE arg

LoadsetResults == {"empty", "No entries found", "reverting", "contents", "ValidationError"}

\* The check looking at the first token only.
adminPasswordAlone_firstOnly(as) ==
    /\ as # <<>>
    /\ StartsWith(Lower(as[1]), Append(sAdminPassword, "="))
    /\ ~StartsWith(Lower(as[1]), Append(sOldAdminPassword, "="))

\* any(s.lower().startswith("adminpassword=") ...) and not any(... "oldadminpassword=" ...)
adminPasswordAlone(as) ==
    /\ \E i \in 1..Len(as) : StartsWith(Lower(as[i]), Append(sAdminPassword, "="))
    /\ ~\E i \in 1..Len(as) : StartsWith(Lower(as[i]), Append(sOldAdminPassword, "="))

(***************************************************************************)
(* IscsiConfigCommand.pcidevicehelper                                      *)
(***************************************************************************)
\* An element of Associations: a plain string or a one-key mapping.
AStr(n) == [kind |-> "str", s |-> n]
ADict(k, v) == [kind |-> "dict", key |-> k, val |-> v]

Candidate(id, assoc) == [CorrelatableID |-> id, Associations |-> assoc]

\* The test with the mapping branch left out.
isDisabled_stringOnly(item, snapshot) ==
    LET first == item.Associations[1]
    IN /\ first.kind = "str"
       /\ first.s \in DOMAIN snapshot
       /\ snapshot[first.s] = "Disabled"

\* the test that appends item to removal
isDisabled(item, snapshot) ==
    LET first == item.Associations[1]
    IN IF first.kind = "dict"
       THEN /\ first.key = "PreBootNetwork"
            /\ first.val \in DOMAIN snapshot
            /\ snapshot[first.val] = "Disabled"
       ELSE /\ first.s \in DOMAIN snapshot
            /\ snapshot[first.s] = "Disabled"

\* removal: the items of devicealloc that pass the test, in list order
RECURSIVE removalOf(_, _)
removalOf(alloc, snapshot) ==
    IF alloc = <<>> THEN <<>>
    ELSE IF isDisabled(Head(alloc), snapshot)
         THEN <<Head(alloc)>> \o removalOf(Tail(alloc), snapshot)
         ELSE removalOf(Tail(alloc), snapshot)

\* list.remove(x): drops the first element equal to x
RECURSIVE listRemove(_, _)
listRemove(l, x) ==
    IF l = <<>> THEN <<>>
    ELSE IF Head(l) = x THEN Tail(l)
    ELSE <<Head(l)>> \o listRemove(Tail(l), x)

\* The removal of the first disabled candidate only.
removeEach_headOnly(l, removal) ==
    IF removal = <<>> THEN l ELSE listRemove(l, Head(removal))

\* _ = [devicealloc.remove(x) for x in removal]
RECURSIVE removeEach(_, _)
removeEach(l, removal) ==
    IF removal = <<>> THEN l
    ELSE removeEach(listRemove(l, Head(removal)), Tail(removal))

BiosKeys == {"EmbNicEnable", "Slot1NicBoot1"}
BiosValues == {"Enabled", "Disabled"}
BiosSnapshots == UNION {[D -> BiosValues] : D \in SUBSET BiosKeys}

FirstAssociations ==
    {AStr(k) : k \in BiosKeys}
        \cup {ADict("PreBootNetwork", "EmbNicEnable"), ADict("Other", "EmbNicEnable")}

Candidates ==
    {Candidate(id, IF f.kind = "dict" THEN <<f, AStr("NicBoot1")>> ELSE <<f>>) :
        id \in {"PciRoot(0x0)", "PciRoot(0x1)"}, f \in FirstAssociations}

(***************************************************************************)
(* IscsiConfigCommand.addoptionhelper and deleteoptionhelper               *)
(***************************************************************************)
Digits == <<"0","1","2","3","4","5","6","7","8","9">>

\* str(n) for an integer n
RECURSIVE pyStr(_)
pyStr(n) ==
    IF n < 0 THEN "-" \o pyStr(0 - n)
    ELSE IF n < 10 THEN Digits[n + 1]
    ELSE pyStr(n \div 10) \o Digits[(n % 10) + 1]

RaisedMsg(err, msg) == [kind |-> "raise", err |-> err, val |-> 0, msg |-> msg]

NicError(msg) == RaisedMsg("NicMissingOrConfigurationError", msg)

PciDevice(path) == [UEFIDevicePath |-> path]

\* for pcidevice in pcideviceslist: the item once per device it matches
RECURSIVE matchesOf(_, _)
matchesOf(item, pcilist) ==
    IF pcilist = <<>> THEN <<>>
    ELSE (IF item.CorrelatableID = Head(pcilist).UEFIDevicePath THEN <<item>> ELSE <<>>)
            \o matchesOf(item, Tail(pcilist))

\* The list with the PCI devices in the outer loop.
make_final_list_pciOuter(alloc, pcilist) ==
    LET hits(dev) == SelectSeq(alloc, LAMBDA item : item.CorrelatableID = dev.UEFIDevicePath)
        from[i \in 0..Len(pcilist)] ==
            IF i = 0 THEN <<>> ELSE from[i - 1] \o hits(pcilist[i])
    IN from[Len(pcilist)]

\* make_final_list: one entry per (candidate, PCI device) pair whose
\* CorrelatableID and UEFIDevicePath agree, candidates outermost
RECURSIVE make_final_list(_, _)
make_final_list(alloc, pcilist) ==
    IF alloc = <<>> THEN <<>>
    ELSE matchesOf(Head(alloc), pcilist) \o make_final_list(Tail(alloc), pcilist)

\* The helper with the removal done before the source test.
pcidevicehelper_removeFirst(alloc, snapshot, sources) ==
    LET removal == removalOf(alloc, snapshot)
    IN IF ~sources
       THEN [res |-> NicError("No iSCSI nic sources available."),
             alloc |-> removeEach(alloc, removal), disabled |-> <<>>]
       ELSE [res |-> Returned(0), alloc |-> removeEach(alloc, removal),
             disabled |-> removal]

\* pcidevicehelper as add calls it: the outcome, the caller's candidate
\* list afterwards and the disabled list handed back
pcidevicehelper(alloc, snapshot, sources) ==
    IF ~sources
    THEN [res |-> NicError("No iSCSI nic sources available."),
          alloc |-> alloc, disabled |-> <<>>]
    ELSE LET removal == removalOf(alloc, snapshot)
         IN [res |-> Returned(0), alloc |-> removeEach(alloc, removal),
             disabled |-> removal]

\* list[idx] with a 0-based Python index: a negative idx counts from the
\* end, anything outside -len..len-1 raises IndexError (ok = FALSE)
pyIndex(l, idx) ==
    IF 0 <= idx /\ idx < Len(l) THEN [ok |-> TRUE, pos |-> idx + 1]
    ELSE IF idx < 0 /\ 0 - idx <= Len(l) THEN [ok |-> TRUE, pos |-> Len(l) + idx + 1]
    ELSE [ok |-> FALSE, pos |-> 0]

\* the attempt instance and attempt name add stores for the value
\* bootattemptcounter handed back
instanceOf(number) == IF number.kind = "return" THEN Some(number.val) ELSE None
nameOf(number) == IF number.kind = "return" THEN pyStr(number.val) ELSE "None"

\* The position of the last free record instead of the first.
firstFree_last(srcs) ==
    IF \E i \in 1..Len(srcs) : ~Truthy(srcs[i].iSCSIAttemptInstance)
    THEN CHOOSE i \in 1..Len(srcs) :
            /\ ~Truthy(srcs[i].iSCSIAttemptInstance)
            /\ \A j \in (i + 1)..Len(srcs) : Truthy(srcs[j].iSCSIAttemptInstance)
    ELSE 0

\* 1-based position of the first record whose attempt instance is falsy,
\* 0 when there is none
firstFree(srcs) ==
    IF \E i \in 1..Len(srcs) : ~Truthy(srcs[i].iSCSIAttemptInstance)
    THEN CHOOSE i \in 1..Len(srcs) :
            /\ ~Truthy(srcs[i].iSCSIAttemptInstance)
            /\ \A j \in 1..(i - 1) : Truthy(srcs[j].iSCSIAttemptInstance)
    ELSE 0

\* The loop of addoptionhelper over the fetched records: the outcome is
\* "patch" with the body to submit, "invalid" for the except branch, or
\* "full" when no record is free.  opt is options.add: <<n>> for a decimal
\* text, <<>> for a text int() rejects.
addLoop(fetched, number, final, opt) ==
    LET f == firstFree(fetched)
    IN IF f = 0 THEN [outcome |-> "full", body |-> fetched]
       ELSE IF opt = <<>> THEN [outcome |-> "invalid", body |-> fetched]
       ELSE LET sel == pyIndex(final, opt[1] - 1)
            IN IF ~sel.ok THEN [outcome |-> "invalid", body |-> fetched]
               ELSE LET nicsourcedata == final[sel.pos].Associations
                        which == IF nicsourcedata[1].kind = "dict" THEN 2 ELSE 1
                    IN IF which > Len(nicsourcedata)
                       THEN [outcome |-> "invalid", body |-> fetched]
                       ELSE [outcome |-> "patch",
                             body |-> [fetched EXCEPT ![f] =
                                 [iSCSIAttemptInstance |-> instanceOf(number),
                                  iSCSIAttemptName |-> nameOf(number),
                                  iSCSINicSource |-> nicsourcedata[which].s]]]

\* The validation without the test for 0.
deleteInputValid_zeroAllowed(opt) == opt # <<>>

\* validateinput(options=options, deleteoption=True): int(options.delete)
\* must succeed and must not be 0
deleteInputValid(opt) == opt # <<>> /\ opt[1] # 0

\* The loop of deleteoptionhelper: every record whose attempt instance
\* equals int(options.delete) is replaced by patch[count]; an index error
\* on patch ends the loop in the except branch ("missing").
RECURSIVE deleteWalk(_, _, _, _, _)
deleteWalk(srcs, patch, n, count, found) ==
    IF count > Len(srcs) THEN [outcome |-> IF found THEN "put" ELSE "notfound", body |-> srcs]
    ELSE IF srcs[count].iSCSIAttemptInstance = Some(n)
    THEN IF count > Len(patch)
         THEN [outcome |-> "missing", body |-> srcs]
         ELSE deleteWalk([srcs EXCEPT ![count] = patch[count]], patch, n, count + 1, TRUE)
    ELSE deleteWalk(srcs, patch, n, count + 1, found)

\* The loop with every replacement taken from the first default record.
deleteLoop_firstDefault(fetched, patch, opt) ==
    deleteWalk(fetched, [i \in 1..Len(patch) |-> patch[1]], opt[1], 1, FALSE)

deleteLoop(fetched, patch, opt) == deleteWalk(fetched, patch, opt[1], 1, FALSE)

Clients == {"A", "B"}

IdleClient ==
    [pc |-> "idle", opt |-> <<>>, fetched |-> <<>>, holdetag |-> None,
     fetchtag |-> 0, number |-> NotRun]

\* the operation that ended last: what it fetched, what it answered and the
\* write request it sent, if any
OpRecord(c, op, opt, res, fetched, fetchtag, final, write) ==
    [client |-> c, op |-> op, opt |-> opt, res |-> res, fetched |-> fetched,
     fetchtag |-> fetchtag, final |-> final, write |-> write]

NoWrite ==
    [method |-> "none", body |-> <<>>, ifmatch |-> None, servertag |-> 0,
     accepted |-> FALSE, before |-> <<>>]

Write(method, body, ifmatch, servertag, accepted, before) ==
    [method |-> method, body |-> body, ifmatch |-> ifmatch,
     servertag |-> servertag, accepted |-> accepted, before |-> before]

NoOp == OpRecord("", "none", <<>>, NotRun, <<>>, 0, <<>>, NoWrite)

(***************************************************************************)
(* The candidate list built from BiosPciSettingsMappings                   *)
(***************************************************************************)
sEmbNicEnable == <<"E","m","b","N","i","c","E","n","a","b","l","e">>
sEmbNicConfig == <<"E","m","b","N","i","c","C","o","n","f","i","g">>
sFlexLom == <<"F","l","e","x","L","o","m">>
sPciSlot == <<"P","c","i","S","l","o","t">>
sSlot == <<"S","l","o","t">>
sEnable == <<"E","n","a","b","l","e">>
sNicBoot == <<"N","i","c","B","o","o","t">>

IsDigit(c) == c \in {"0","1","2","3","4","5","6","7","8","9"}

\* the first position at or after i of s that holds no digit
RECURSIVE DigitsEnd(_, _)
DigitsEnd(s, i) ==
    IF i <= Len(s) /\ IsDigit(s[i]) THEN DigitsEnd(s, i + 1) ELSE i

\* re.match(pre + "[0-9]+" + post, s): 0 when s does not start with a
\* match, else the position that follows the match
reMatchEnd(s, pre, post) ==
    LET i == Len(pre) + 1
        j == DigitsEnd(s, i)
    IN IF StartsWith(s, pre) /\ j > i /\ StartsWith(SubSeq(s, j, Len(s)), post)
       THEN j + Len(post)
       ELSE 0

\* re.match("FlexLom[0-9]+Enable", s) or re.match("PciSlot[0-9]+Enable", s)
\* or re.match("Slot[0-9]+NicBoot[0-9]+", s)
nicPattern(s) ==
    \/ reMatchEnd(s, sFlexLom, sEnable) # 0
    \/ reMatchEnd(s, sPciSlot, sEnable) # 0
    \/ LET k == reMatchEnd(s, sSlot, sNicBoot)
       IN k # 0 /\ DigitsEnd(s, k) > k

MapEntry(has, assoc, subs) ==
    [hasAssociations |-> has, Associations |-> assoc, Subinstances |-> subs]

\* "EmbNicEnable" in item["Associations"] or "EmbNicConfig" in item["Associations"]
embeddedNic(item) ==
    \E i \in 1..Len(item.Associations) :
        item.Associations[i] \in {sEmbNicEnable, sEmbNicConfig}

\* What one mapping entry appends to devicealloc.  add and list index
\* Associations[0] unguarded; default catches the IndexError.
appendedBy(item, who) ==
    IF ~item.hasAssociations THEN [raise |-> FALSE, list |-> <<>>]
    ELSE LET first == IF embeddedNic(item) THEN item.Subinstances ELSE <<>>
         IN IF item.Associations = <<>>
            THEN [raise |-> who # "default", list |-> first]
            ELSE [raise |-> FALSE,
                  list |-> first \o (IF nicPattern(item.Associations[1])
                                     THEN item.Subinstances ELSE <<>>)]

\* for item in pcisettingsmap["BiosPciSettingsMappings"]: ...
RECURSIVE collectFrom(_, _, _)
collectFrom(map, who, acc) ==
    IF map = <<>> THEN [res |-> Returned(0), list |-> acc]
    ELSE LET step == appendedBy(Head(map), who)
         IN IF step.raise THEN [res |-> Raised("IndexError"), list |-> acc \o step.list]
            ELSE collectFrom(Tail(map), who, acc \o step.list)

(***************************************************************************)
(* print_out_iscsi_configuration as defaultsoptionhelper calls it          *)
(***************************************************************************)
NamedPci(path, name) == [UEFIDevicePath |-> path, Name |-> name]

\* a printed line "[count] <device>": the device is known by its name; item
\* records the candidate the line was printed for (history)
NumberedLine(count, dev, item) == [count |-> count, name |-> dev.Name, item |-> item]
DisabledLine(dev, item) == [label |-> "Disabled", name |-> dev.Name, item |-> item]

\* the lines of one item: one per PCI device whose UEFIDevicePath is the
\* item's CorrelatableID, numbered from count
RECURSIVE linesOf(_, _, _, _)
linesOf(item, pcilist, count, disabled) ==
    IF pcilist = <<>> THEN <<>>
    ELSE IF item.CorrelatableID = Head(pcilist).UEFIDevicePath
         THEN (IF disabled THEN <<DisabledLine(Head(pcilist), item)>>
               ELSE <<NumberedLine(count, Head(pcilist), item)>>)
                 \o linesOf(item, Tail(pcilist), IF disabled THEN count ELSE count + 1, disabled)
         ELSE linesOf(item, Tail(pcilist), count, disabled)

RECURSIVE printLoop(_, _, _, _)
printLoop(alloc, pcilist, count, disabled) ==
    IF alloc = <<>> THEN <<>>
    ELSE LET lines == linesOf(Head(alloc), pcilist, count, disabled)
         IN lines \o printLoop(Tail(alloc), pcilist,
                               IF disabled THEN count ELSE count + Len(lines), disabled)

\* print_out_iscsi_configuration: the lines, or the raise when the list of
\* candidates or of PCI devices is empty
print_out_iscsi_configuration(alloc, pcilist, disabled) ==
    IF alloc # <<>> /\ pcilist # <<>>
    THEN [res |-> Returned(0), lines |-> printLoop(alloc, pcilist, 1, disabled)]
    ELSE [res |-> Raised("BootOrderMissingEntriesError"), lines |-> <<>>]

(***************************************************************************)
(* SetCommand.setfunction: the handler of redfish.ris.ValidationError      *)
(***************************************************************************)
sHpBiosDot == <<"h","p","b","i","o","s",".">>
sOldAdminPasswordPath == "/OldAdminPassword"

Patch(path, value) == [path |-> path, value |-> value]
Instance(majtype, patches) == [maj_type |-> majtype, patches |-> patches]

\* [patches.remove(patch) for patch in patches if path == "/OldAdminPassword"]:
\* the comprehension walks the list it removes from, so the position i
\* moves on over a list that has just lost an element
RECURSIVE removeWhileWalking(_, _)
removeWhileWalking(patches, i) ==
    IF i > Len(patches) THEN patches
    ELSE IF patches[i].path = sOldAdminPasswordPath
         THEN removeWhileWalking(listRemove(patches, patches[i]), i + 1)
         ELSE removeWhileWalking(patches, i + 1)

\* the body of "for err in errs" for one error
purgeFor(err, insts) ==
    IF err # <<>> /\ Lower(err) = sAdminPassword
    THEN [k \in 1..Len(insts) |->
            IF HasSubstr(Lower(insts[k].maj_type), sHpBiosDot)
            THEN Instance(insts[k].maj_type, removeWhileWalking(insts[k].patches, 1))
            ELSE insts[k]]
    ELSE insts

RECURSIVE purgeAll(_, _)
purgeAll(errs, insts) ==
    IF errs = <<>> THEN insts
    ELSE purgeAll(Tail(errs), purgeFor(Head(errs), insts))

(***************************************************************************)
(* IscsiConfigCommand.run                                                  *)
(***************************************************************************)
\* an option is TRUE when it was given with a value Python takes as true
RunOptions(l, m, a, d, r, n) ==
    [list |-> l, modify |-> m, add |-> a, delete |-> d, reboot |-> r, nargs |-> n]

NoRunOptions == RunOptions(FALSE, FALSE, FALSE, FALSE, FALSE, 0)

\* The chain with add tested before modify.
operationOf_addFirst(o) ==
    IF o.list THEN "list"
    ELSE IF o.add THEN "add"
    ELSE IF o.modify THEN "modify"
    ELSE IF o.delete THEN "delete"
    ELSE IF o.nargs = 0 THEN "default"
    ELSE IF o.nargs < 2 THEN "validate"
    ELSE "toomany"

\* the if / elif chain of run
operationOf(o) ==
    IF o.list THEN "list"
    ELSE IF o.modify THEN "modify"
    ELSE IF o.add THEN "add"
    ELSE IF o.delete THEN "delete"
    ELSE IF o.nargs = 0 THEN "default"
    ELSE IF o.nargs < 2 THEN "validate"
    ELSE "toomany"

Invoked(ev, ok) == [ev |-> ev, ok |-> ok]

(***************************************************************************)
(* listoptionhelper with -f, modifyoptionhelper and modifyfunctionhelper   *)
(***************************************************************************)
sAttempt == <<"A","t","t","e","m","p","t"," ">>
sNone == <<"N","o","n","e">>

\* str(n) as a sequence of characters
RECURSIVE pyStrChars(_)
pyStrChars(n) ==
    IF n < 0 THEN <<"-">> \o pyStrChars(0 - n)
    ELSE IF n < 10 THEN <<Digits[n + 1]>>
    ELSE pyStrChars(n \div 10) \o <<Digits[(n % 10) + 1]>>

\* "Attempt " + str(item[iscsiattemptinstance])
attemptKey(inst) == sAttempt \o (IF inst = None THEN sNone ELSE pyStrChars(inst[1]))

SourceRecord(inst, nic) ==
    [iSCSIAttemptInstance |-> inst,
     iSCSIAttemptName |-> IF inst = None THEN "" ELSE pyStr(inst[1]),
     iSCSINicSource |-> nic]

\* one element of structeredlist: {inputstring: {key: item}} or {"Not Added": {}}.
\* json.dumps and json.loads keep the list order, the keys and the values.
Listed(label, key, item) == [label |-> label, attempts |-> <<[key |-> key, value |-> item]>>]
NotAdded == [label |-> "Not Added", attempts |-> <<>>]

\* for pcidevice in pcideviceslist: one element per device on the
\* candidate's path
RECURSIVE listedOnPci(_, _, _)
listedOnPci(item, device, pcilist) ==
    IF pcilist = <<>> THEN <<>>
    ELSE (IF device.CorrelatableID = Head(pcilist).UEFIDevicePath
          THEN <<Listed(Head(pcilist).Name, attemptKey(item.iSCSIAttemptInstance), item)>>
          ELSE <<>>) \o listedOnPci(item, device, Tail(pcilist))

\* for device in devicealloc: the candidates whose association text is the
\* record's NIC source
RECURSIVE listedOnDevices(_, _, _)
listedOnDevices(item, alloc, pcilist) ==
    IF alloc = <<>> THEN <<>>
    ELSE LET device == Head(alloc)
             listval == IF device.Associations[1].kind = "dict" THEN 2 ELSE 1
             assoc == device.Associations[listval]
         IN (IF assoc.kind = "str" /\ assoc.s = item.iSCSINicSource
             THEN listedOnPci(item, device, pcilist) ELSE <<>>)
               \o listedOnDevices(item, Tail(alloc), pcilist)

\* structeredlist of listoptionhelper
RECURSIVE structuredList(_, _, _)
structuredList(srcs, alloc, pcilist) ==
    IF srcs = <<>> THEN <<>>
    ELSE (IF Head(srcs).iSCSINicSource # ""
          THEN listedOnDevices(Head(srcs), alloc, pcilist)
          ELSE <<NotAdded>>) \o structuredList(Tail(srcs), alloc, pcilist)

NoneValue == [none |-> TRUE]

DigitVal(c) == CHOOSE d \in 0..9 : Digits[d + 1] = c

\* modifyfunctionhelper: int(key[-1:]) is compared with the attempt
\* instance of each fetched record; value when one is equal, else None.
\* int() raises in the first turn of the loop when the last character is
\* no digit.
modifyfunctionhelper(key, value, srcs) ==
    IF srcs = <<>> THEN [raise |-> FALSE, value |-> NoneValue]
    ELSE IF key = <<>> \/ ~IsDigit(key[Len(key)])
    THEN [raise |-> TRUE, value |-> NoneValue]
    ELSE IF \E i \in 1..Len(srcs) :
              srcs[i].iSCSIAttemptInstance = Some(DigitVal(key[Len(key)]))
    THEN [raise |-> FALSE, value |-> value]
    ELSE [raise |-> FALSE, value |-> NoneValue]

\* the loop of modifyoptionhelper over the file: count is the 0-based
\* position in the file
RECURSIVE modifyLoop(_, _, _, _)
modifyLoop(file, srcs, count, acc) ==
    IF count >= Len(file) THEN [res |-> Returned(0), body |-> acc]
    ELSE LET entry == file[count + 1].attempts
         IN IF entry # <<>>
            THEN LET got == modifyfunctionhelper(entry[1].key, entry[1].value, srcs)
                 IN IF got.raise THEN [res |-> Raised("ValueError"), body |-> acc]
                    ELSE modifyLoop(file, srcs, count + 1, Append(acc, got.value))
            ELSE IF count >= Len(srcs)
                 THEN [res |-> Raised("IndexError"), body |-> acc]
                 ELSE modifyLoop(file, srcs, count + 1, Append(acc, srcs[count + 1]))

(***************************************************************************)
(* Initial values of the variables a command does not use                  *)
(***************************************************************************)
NoOptions == [commit |-> FALSE, reboot |-> FALSE, filter |-> "none"]

AllocIdle == bootsources = <<>> /\ allocres = NotRun
PciIdle ==
    /\ devicealloc0 = <<>> /\ devicealloc = <<>> /\ bios = <<>>
    /\ nicsources = TRUE /\ disabledlist = <<>> /\ pcires = NotRun
SetIdle ==
    /\ selector = <<>> /\ options = NoOptions /\ args = <<>> /\ argidx = 0
    /\ processed = <<>> /\ setres = NotRun
    /\ committed = FALSE /\ rebooted = FALSE
MapIdle ==
    /\ pcisettingsmap = <<>> /\ caller = "" /\ collected = <<>>
    /\ collectres = NotRun
ListIdle == printed = <<>> /\ finallist = <<>> /\ listres = NotRun
ValIdle == instances0 = <<>> /\ instances = <<>> /\ valerrs = <<>>
RunIdle == runopts = NoRunOptions /\ runlog = <<>> /\ runres = NotRun
ModIdle == listfile = <<>> /\ written = FALSE /\ modbody = <<>> /\ modres = NotRun
ExtIdle == MapIdle /\ ListIdle /\ ValIdle /\ RunIdle /\ ModIdle
IscsiIdle ==
    /\ remote0 = <<>> /\ remote = <<>> /\ etag = 0 /\ basedefault = <<>>
    /\ pcideviceslist = <<>> /\ client = [c \in Clients |-> IdleClient]
    /\ lastop = NoOp

(***************************************************************************)
(* Actions                                                                 *)
(***************************************************************************)
\* bootattemptcounter(bootsources)
BootAttemptCounter ==
    /\ pc = "bootattemptcounter"
    /\ allocres' = bootattemptcounter(bootsources)
    /\ pc' = "done"
    /\ UNCHANGED <<bootsources, pcivars, setvars, iscsivars, extvars>>

\* pcidevicehelper(devicealloc, iscsipath, bootpath, pcideviceslist): the
\* PCI device list is only read; the GET of iscsipath raises when the
\* resource or its iSCSINicSources property is missing.
PciDeviceHelper ==
    /\ pc = "pcidevicehelper"
    /\ IF ~nicsources
       THEN /\ pcires' = Raised("NicMissingOrConfigurationError")
            /\ UNCHANGED <<devicealloc, disabledlist>>
       ELSE LET removal == removalOf(devicealloc, bios)
            IN /\ devicealloc' = removeEach(devicealloc, removal)
               /\ disabledlist' = removal
               /\ pcires' = Returned(0)
    /\ pc' = "done"
    /\ UNCHANGED <<devicealloc0, bios, nicsources, allocvars, setvars, iscsivars, extvars>>

Entry(token, outcome, sel, seldict, contents) ==
    [token |-> token, outcome |-> outcome, sel |-> sel,
     seldict |-> seldict, contents |-> contents]

\* setfunction up to the token loop: args[0].find("HighSecurity"), the
\* --filter split and the AdminPassword / OldAdminPassword check.
SetBegin ==
    /\ pc = "setfunction"
    /\ argidx = 0
    /\ IF args = <<>>
       THEN /\ setres' = Raised("IndexError")
            /\ pc' = "done"
            /\ UNCHANGED argidx
       ELSE IF options.filter = "bad" \/ adminPasswordAlone(args)
       THEN /\ setres' = Raised("InvalidCommandLineError")
            /\ pc' = "done"
            /\ UNCHANGED argidx
       ELSE /\ argidx' = 1
            /\ UNCHANGED <<setres, pc>>
    /\ UNCHANGED <<selector, options, args, processed, committed, rebooted,
                   allocvars, pcivars, iscsivars, extvars>>

\* One turn of "for arg in args": quote handling, selector checks, the
\* try block, the payload and the loadset call with what follows it.
SetToken ==
    /\ pc = "setfunction"
    /\ argidx \in 1..Len(args)
    /\ LET arg == args[argidx]
           fixed == IF arg # <<>>
                    THEN [args EXCEPT ![argidx] = argsQuoteFixed(arg)]
                    ELSE args
       IN /\ args' = fixed
          /\ IF selector = <<>>
             THEN /\ processed' = Append(processed,
                        Entry(arg, "NothingSelectedError", <<>>, Str(<<>>), ""))
                  /\ setres' = Raised("NothingSelectedError")
                  /\ pc' = "done"
                  /\ UNCHANGED <<selector, argidx>>
             ELSE LET dotted == selectorDotted(selector)
                      b == buildToken(selectorRead(selector, dotted), arg)
                  IN /\ selector' = dotted
                     /\ IF ~b.ok
                        THEN /\ processed' = Append(processed,
                                   Entry(arg, "InvalidCommandLineError", <<>>, Str(<<>>), ""))
                             /\ setres' = Raised("InvalidCommandLineError")
                             /\ pc' = "done"
                             /\ UNCHANGED argidx
                        ELSE \E contents \in LoadsetResults :
                             /\ processed' = Append(processed,
                                   Entry(arg, "loadset", b.sel, b.seldict, contents))
                             /\ IF contents = "ValidationError"
                                THEN /\ setres' = Raised("ValidationError")
                                     /\ pc' = "done"
                                     /\ UNCHANGED argidx
                                ELSE IF \/ contents = "empty" /\ b.sel # sOldAdminPassword
                                        \/ contents = "No entries found"
                                THEN /\ setres' = Raised("InvalidOrNothingChangedSettingsError")
                                     /\ pc' = "done"
                                     /\ UNCHANGED argidx
                                ELSE /\ argidx' = argidx + 1
                                     /\ UNCHANGED <<setres, pc>>
    /\ UNCHANGED <<options, committed, rebooted, allocvars, pcivars, iscsivars, extvars>>

\* after the loop: commit, or reboot when no commit was asked for
SetFinish ==
    /\ pc = "setfunction"
    /\ argidx = Len(args) + 1
    /\ committed' = options.commit
    /\ rebooted' = (options.reboot /\ ~options.commit)
    /\ setres' = Returned(0)
    /\ pc' = "done"
    /\ UNCHANGED <<selector, options, args, argidx, processed, allocvars, pcivars,
                   iscsivars, extvars>>

\* The operation of client c has ended: it is recorded and c is idle again.
Finish(c, op, res, final, write) ==
    /\ lastop' = OpRecord(c, op, client[c].opt, res, client[c].fetched,
                          client[c].fetchtag, final, write)
    /\ client' = [client EXCEPT ![c] = IdleClient]

\* addoptionhelper up to bootattemptcounter: the GET of the settings
\* resource (no header is kept) and the allocation of the attempt number
AddFetch(c, opt) ==
    /\ pc = "iscsi" /\ client[c].pc = "idle" /\ etag < MaxWrites
    /\ LET number == bootattemptcounter(remote)
       IN IF number.kind = "raise"
          THEN /\ lastop' = OpRecord(c, "add", opt, number, remote, etag, <<>>, NoWrite)
               /\ UNCHANGED client
          ELSE /\ client' = [client EXCEPT ![c] =
                    [pc |-> "add", opt |-> opt, fetched |-> remote,
                     holdetag |-> None, fetchtag |-> etag, number |-> number]]
               /\ UNCHANGED lastop
    /\ UNCHANGED <<pc, allocvars, pcivars, setvars, remote0, remote, etag,
                   basedefault, pcideviceslist, extvars>>

\* the rest of addoptionhelper: pcidevicehelper on the candidate list,
\* make_final_list, the loop over the fetched records and the PATCH, which
\* carries no If-Match header and is applied whatever the resource holds
AddSubmit(c) ==
    /\ pc = "iscsi" /\ client[c].pc = "add"
    /\ LET helper == pcidevicehelper(devicealloc0, bios, nicsources)
           final == make_final_list(helper.alloc, pcideviceslist)
           loop == addLoop(client[c].fetched, client[c].number, final, client[c].opt)
       IN /\ devicealloc' = helper.alloc
          /\ disabledlist' = helper.disabled
          /\ pcires' = helper.res
          /\ IF helper.res.kind = "raise"
             THEN /\ Finish(c, "add", helper.res, <<>>, NoWrite)
                  /\ UNCHANGED <<remote, etag>>
             ELSE IF loop.outcome = "patch"
             THEN /\ remote' = loop.body
                  /\ etag' = etag + 1
                  /\ Finish(c, "add", Returned(0), final,
                            Write("PATCH", loop.body, None, etag, TRUE, remote))
             ELSE /\ Finish(c, "add",
                            IF loop.outcome = "invalid"
                            THEN NicError("Invalid input value for configuring NIC.")
                            ELSE NicError("Failed to add NIC. All NICs have already been configured."),
                            final, NoWrite)
                  /\ UNCHANGED <<remote, etag>>
    /\ UNCHANGED <<pc, allocvars, devicealloc0, bios, nicsources, setvars,
                   remote0, basedefault, pcideviceslist, extvars>>

\* deleteoptionhelper up to the GET of the settings resource: the base
\* configuration check, validateinput, then the fetch that keeps the etag
DeleteFetch(c, opt) ==
    /\ pc = "iscsi" /\ client[c].pc = "idle" /\ etag < MaxWrites
    /\ IF basedefault = <<>>
       THEN /\ lastop' = OpRecord(c, "delete", opt,
                            NicError("Could not access Base Configurations."),
                            <<>>, 0, <<>>, NoWrite)
            /\ UNCHANGED client
       ELSE IF ~deleteInputValid(opt)
       THEN /\ lastop' = OpRecord(c, "delete", opt,
                            NicError("Invalid input value.Please give valid attempt for instance values."),
                            <<>>, 0, <<>>, NoWrite)
            /\ UNCHANGED client
       ELSE /\ client' = [client EXCEPT ![c] =
                    [pc |-> "delete", opt |-> opt, fetched |-> remote,
                     holdetag |-> Some(etag), fetchtag |-> etag, number |-> NotRun]]
            /\ UNCHANGED lastop
    /\ UNCHANGED <<pc, allocvars, pcivars, setvars, remote0, remote, etag,
                   basedefault, pcideviceslist, extvars>>

\* what put_handler hands back when the service refuses the request: the
\* caller reads no status, so the command ends normally unless the handler
\* itself raises
RefusedOutcomes == {Returned(0), RaisedMsg("IloResponseError", "")}

\* the rest of deleteoptionhelper: the replacement loop and the PUT with
\* If-Match, which the service applies only while its etag is the one sent
DeleteSubmit(c) ==
    /\ pc = "iscsi" /\ client[c].pc = "delete"
    /\ LET loop == deleteLoop(client[c].fetched, basedefault, client[c].opt)
           accepted == client[c].holdetag = Some(etag)
       IN IF loop.outcome = "put"
          THEN IF accepted
               THEN /\ remote' = loop.body
                    /\ etag' = etag + 1
                    /\ Finish(c, "delete", Returned(0), <<>>,
                              Write("PUT", loop.body, client[c].holdetag, etag, TRUE, remote))
               ELSE /\ \E r \in RefusedOutcomes :
                         Finish(c, "delete", r, <<>>,
                                Write("PUT", loop.body, client[c].holdetag, etag, FALSE, remote))
                    /\ UNCHANGED <<remote, etag>>
          ELSE /\ Finish(c, "delete",
                         IF loop.outcome = "missing"
                         THEN NicError("The NIC targeted for delete does not exist. The request for delete could not be completed.")
                         ELSE NicError("The given attempt instance does not exist."),
                         <<>>, NoWrite)
               /\ UNCHANGED <<remote, etag>>
    /\ UNCHANGED <<pc, allocvars, pcivars, setvars, remote0, basedefault,
                   pcideviceslist, extvars>>

\* The loop that fills devicealloc in addoptionhelper, listoptionhelper
\* and defaultsoptionhelper.
CollectCandidates ==
    /\ pc = "collect"
    /\ LET out == collectFrom(pcisettingsmap, caller, <<>>)
       IN /\ collected' = out.list
          /\ collectres' = out.res
    /\ pc' = "done"
    /\ UNCHANGED <<pcisettingsmap, caller, notmapvars>>

\* defaultsoptionhelper from pcidevicehelper on: the available list is
\* printed, then the disabled list when it is not empty
DefaultListing ==
    /\ pc = "default"
    /\ LET helper == pcidevicehelper(devicealloc0, bios, nicsources)
           avail == print_out_iscsi_configuration(helper.alloc, pcideviceslist, FALSE)
           off == print_out_iscsi_configuration(helper.disabled, pcideviceslist, TRUE)
       IN /\ devicealloc' = helper.alloc
          /\ disabledlist' = helper.disabled
          /\ pcires' = helper.res
          /\ IF helper.res.kind = "raise"
             THEN printed' = <<>> /\ listres' = helper.res
             ELSE IF avail.res.kind = "raise"
             THEN printed' = <<>> /\ listres' = avail.res
             ELSE IF helper.disabled # <<>>
             THEN printed' = avail.lines \o off.lines /\ listres' = off.res
             ELSE printed' = avail.lines /\ listres' = avail.res
    /\ pc' = "addfinal"
    /\ UNCHANGED <<devicealloc0, bios, nicsources, pcideviceslist, finallist,
                   notlistvars>>

\* addoptionhelper on the same server: pcidevicehelper on a freshly built
\* candidate list, then make_final_list
AddFinalList ==
    /\ pc = "addfinal"
    /\ LET helper == pcidevicehelper(devicealloc0, bios, nicsources)
       IN /\ devicealloc' = helper.alloc
          /\ disabledlist' = helper.disabled
          /\ pcires' = helper.res
          /\ finallist' = IF helper.res.kind = "raise" THEN <<>>
                          ELSE make_final_list(helper.alloc, pcideviceslist)
    /\ pc' = "done"
    /\ UNCHANGED <<devicealloc0, bios, nicsources, pcideviceslist, printed,
                   listres, notlistvars>>

\* except redfish.ris.ValidationError: the pending /OldAdminPassword
\* patches are dropped for every AdminPassword error, then the error is
\* raised again
SetValidationError ==
    /\ pc = "validationerror"
    /\ instances' = purgeAll(valerrs, instances)
    /\ pc' = "done"
    /\ UNCHANGED <<instances0, valerrs, notvalvars>>

\* run up to the dispatch: iscsiconfigurationvalidation logs in and may raise
RunValidate ==
    /\ pc = "run"
    /\ \E ok \in BOOLEAN :
        /\ runlog' = Append(runlog, Invoked("validate", ok))
        /\ IF ok THEN pc' = "dispatch" /\ UNCHANGED runres
           ELSE pc' = "done" /\ runres' = Raised("Exception")
    /\ UNCHANGED <<runopts, notrunvars>>

\* the if / elif chain: one helper runs and returns or raises; with one
\* argument and no flag the validation runs again, with more run raises
RunOperation ==
    /\ pc = "dispatch"
    /\ LET op == operationOf(runopts)
       IN IF op = "toomany"
          THEN /\ runres' = Raised("InvalidCommandLineError")
               /\ pc' = "done"
               /\ UNCHANGED runlog
          ELSE \E ok \in BOOLEAN :
               /\ runlog' = Append(runlog, Invoked(op, ok))
               /\ IF ok THEN pc' = "reboot" /\ UNCHANGED runres
                  ELSE pc' = "done" /\ runres' = Raised("NicMissingOrConfigurationError")
    /\ UNCHANGED <<runopts, notrunvars>>

\* if options.reboot: self.auxcommands["reboot"].run(options.reboot)
RunReboot ==
    /\ pc = "reboot"
    /\ IF runopts.reboot
       THEN \E ok \in BOOLEAN :
            /\ runlog' = Append(runlog, Invoked("reboot", ok))
            /\ IF ok THEN pc' = "logout" /\ UNCHANGED runres
               ELSE pc' = "done" /\ runres' = Raised("Exception")
       ELSE pc' = "logout" /\ UNCHANGED <<runlog, runres>>
    /\ UNCHANGED <<runopts, notrunvars>>

\* self.cmdbase.logout_routine(self, options); return ReturnCodes.SUCCESS
RunLogout ==
    /\ pc = "logout"
    /\ runlog' = Append(runlog, Invoked("logout", TRUE))
    /\ runres' = Returned(0)
    /\ pc' = "done"
    /\ UNCHANGED <<runopts, notrunvars>>

\* listoptionhelper with -f: pcidevicehelper on the candidate list, the
\* structured list of the fetched records, written to the file
ListToFile ==
    /\ pc = "list"
    /\ LET helper == pcidevicehelper(devicealloc0, bios, nicsources)
       IN /\ devicealloc' = helper.alloc
          /\ disabledlist' = helper.disabled
          /\ pcires' = helper.res
          /\ IF helper.res.kind = "raise"
             THEN /\ modres' = helper.res /\ pc' = "done"
                  /\ UNCHANGED <<listfile, written>>
             ELSE /\ listfile' = structuredList(remote, helper.alloc, pcideviceslist)
                  /\ written' = TRUE
                  /\ pc' = "modify"
                  /\ UNCHANGED modres
    /\ UNCHANGED <<devicealloc0, bios, nicsources, pcideviceslist, remote, etag,
                   modbody, notmodvars>>

\* modifyoptionhelper: the file is read, the records are fetched, the body
\* is built entry by entry and sent in one PATCH
Modify ==
    /\ pc = "modify"
    /\ LET out == modifyLoop(listfile, remote, 0, <<>>)
       IN /\ modres' = out.res
          /\ IF out.res.kind = "raise"
             THEN UNCHANGED <<modbody, remote, etag>>
             ELSE /\ modbody' = out.body
                  /\ remote' = out.body
                  /\ etag' = etag + 1
    /\ pc' = "done"
    /\ UNCHANGED <<pcivars, pcideviceslist, listfile, written, notmodvars>>

(***************************************************************************)
(* Inputs                                                                  *)
(***************************************************************************)
RECURSIVE Join(_, _)
Join(pieces, sep) ==
    IF pieces = <<>> THEN <<>>
    ELSE IF Len(pieces) = 1 THEN pieces[1]
    ELSE pieces[1] \o <<sep>> \o Join(Tail(pieces), sep)

PathSegs == {<<"a">>, <<"B">>}

SegPaths == {Join(p, "/") : p \in SeqsUpTo(PathSegs, MaxSegs) \ {<<>>}}

SpecialPaths ==
    { <<>>,
      <<" ">>,
      <<" ","a","/","B"," ">>,
      <<"a"," ","/","b">>,
      <<"a","/","b","/","c">>,
      sAttributesSlash \o <<"a">>,
      <<"O","l","d">> \o sAdminPassword }

Paths == SegPaths \cup SpecialPaths

Literals ==
    { <<>>,
      <<"x">>,
      <<"X","y">>,
      <<"'","x","'">>,
      <<"x","/","y">>,
      <<"b","=","c">>,
      <<"=">>,
      sTrue,
      <<"T","r","u","e">>,
      <<"F","A","L","S","E">>,
      <<"\"","t","r","u","e","\"">>,
      <<" ","t","r","u","e">>,
      sYes,
      <<"[","1",",","2",",","3","]">>,
      <<"[","]">>,
      <<"[">>,
      <<"[","1",",","2">>,
      <<"[","a","/","b",",",",","]">>,
      <<"\"","[","1",",","2","]","\"">>,
      <<"[","t","r","u","e","]">>,
      sAttributes }

QuotedTokens ==
    { <<"\"","a","=","x","\"">>, <<"'","a","=","x","'">>,
      <<"\"","\"">>, <<"'","'">>, <<"'","a">> }

Tokens ==
    {p \o <<"=">> \o v : p \in Paths, v \in Literals}
        \cup Paths \cup QuotedTokens

PairTokens ==
    { <<"a","=","x">>, <<"B">>,
      sAdminPassword \o <<"=","x">>,
      <<"O","l","d">> \o sAdminPassword \o <<"=","y">> }

SetArgs ==
    {<<>>} \cup {<<t>> : t \in Tokens} \cup {<<s, t>> : s, t \in PairTokens}

Selectors == { <<>>, sBiosDot, <<"B","i","o","s">>, <<"x",".">> }

OptionSets ==
    { NoOptions,
      [commit |-> TRUE, reboot |-> FALSE, filter |-> "ok"],
      [commit |-> FALSE, reboot |-> TRUE, filter |-> "none"],
      [commit |-> TRUE, reboot |-> TRUE, filter |-> "none"],
      [commit |-> FALSE, reboot |-> FALSE, filter |-> "bad"] }

\* Inputs of the add/delete machine.  options.add and options.delete are
\* <<n>> for a decimal text and <<>> for a text int() rejects.
AddOpts == {<<>>} \cup {<<n>> : n \in 0..3}
DeleteOpts == {<<>>} \cup {<<n>> : n \in 0..3}

AllFree(n) == [i \in 1..n |-> BootSource(None)]
Instances(insts) == [i \in 1..Len(insts) |-> BootSource(insts[i])]

\* base-configuration defaults, told apart by their NIC source text
DefaultRecord(i, inst) ==
    [iSCSIAttemptInstance |-> inst, iSCSIAttemptName |-> "",
     iSCSINicSource |-> "default" \o pyStr(i)]
Defaults(n) == [i \in 1..n |-> DefaultRecord(i, None)]

EmbNic == Candidate("PciRoot(0x0)", <<AStr("EmbNicEnable")>>)
SlotNic == Candidate("PciRoot(0x1)", <<ADict("Other", "Slot1NicBoot1"), AStr("NicBoot1")>>)
OffNic == Candidate("PciRoot(0x2)", <<AStr("Slot1NicBoot1")>>)
BareNic == Candidate("PciRoot(0x1)", <<ADict("Other", "Slot1NicBoot1")>>)
BiosNow == [k \in BiosKeys |-> IF k = "EmbNicEnable" THEN "Enabled" ELSE "Disabled"]
AllPci == <<PciDevice("PciRoot(0x0)"), PciDevice("PciRoot(0x1)"), PciDevice("PciRoot(0x2)")>>

NicEnv(alloc, sources, pcilist) == [alloc |-> alloc, sources |-> sources, pcilist |-> pcilist]
UsualNics == NicEnv(<<EmbNic, SlotNic, OffNic>>, TRUE, AllPci)
NicEnvs ==
    {UsualNics,
     NicEnv(<<EmbNic, SlotNic, OffNic>>, FALSE, AllPci),
     NicEnv(<<EmbNic, BareNic>>, TRUE, AllPci),
     NicEnv(<<EmbNic, SlotNic>>, TRUE, <<PciDevice("PciRoot(0x0)")>>)}

Scenario(r, d, e) == [remote |-> r, default |-> d, env |-> e]
Scenarios ==
    {Scenario(AllFree(MaxSlots), Defaults(MaxSlots), e) : e \in NicEnvs}
        \cup {Scenario(Instances(<<Some(1), None, Some(3), None>>), Defaults(4), UsualNics),
              Scenario(Instances(<<Some(1), Some(1), None>>), Defaults(3), UsualNics),
              Scenario(Instances(<<Some(2), Some(2), None>>), Defaults(1), UsualNics),
              Scenario(AllFree(MaxSlots),
                       [Defaults(MaxSlots) EXCEPT ![1] = DefaultRecord(1, Some(2))], UsualNics),
              Scenario(AllFree(MaxSlots), <<>>, UsualNics)}

\* Inputs of the candidate-list builder
AssocNames ==
    {sEmbNicEnable, sEmbNicConfig,
     sFlexLom \o <<"1">> \o sEnable,
     sPciSlot \o <<"1","2">> \o sEnable,
     sSlot \o <<"1">> \o sNicBoot \o <<"2">>,
     sSlot \o sNicBoot \o <<"1">>}

\* the subinstances of the entry at position i of the mapping
SubinstancesAt(i) == IF i = 1 THEN <<"1a", "1b">> ELSE <<pyStr(i) \o "a">>

EntryShapes ==
    {[has |-> FALSE, assoc |-> <<>>]}
        \cup {[has |-> TRUE, assoc |-> a] : a \in SeqsUpTo(AssocNames, MaxAssoc)}

Mappings ==
    {[i \in 1..Len(sh) |-> MapEntry(sh[i].has, sh[i].assoc, SubinstancesAt(i))] :
        sh \in SeqsUpTo(EntryShapes, MaxEntries)}

Callers == {"add", "list", "default"}

\* PCI device lists of the listing: none, one device per path, two devices
\* with the same path, a path no candidate has
Dev0 == NamedPci("PciRoot(0x0)", "nic0")
Dev1 == NamedPci("PciRoot(0x1)", "nic1")
Dev0b == NamedPci("PciRoot(0x0)", "nic0b")
Dev9 == NamedPci("PciRoot(0x9)", "nic9")
PciLists ==
    {<<>>, <<Dev0>>, <<Dev1, Dev0>>, <<Dev0, Dev1, Dev0b>>, <<Dev9, Dev1>>}

\* Inputs of the ValidationError handler
PendingPatches ==
    {Patch(sOldAdminPasswordPath, "old1"), Patch(sOldAdminPasswordPath, "old2"),
     Patch("/AdminPassword", "new"), Patch("/ServerName", "x")}

MajTypes == {<<"H","p","B","i","o","s",".","1">>, <<"B","i","o","s",".","v","1">>}

MonolithInstances ==
    {<<Instance(t, ps)>> : t \in MajTypes, ps \in SeqsUpTo(PendingPatches, MaxPatches)}
        \cup {<<Instance(t, ps), Instance(t, <<Patch(sOldAdminPasswordPath, "old1")>>)>> :
                t \in MajTypes, ps \in SeqsUpTo(PendingPatches, MaxPatches)}

ErrSels == {<<"A","d","m","i","n","P","a","s","s","w","o","r","d">>, <<"X">>, <<>>}

\* Inputs of run: every combination of flags, 0..MaxArgs arguments
RunInputs ==
    {RunOptions(l, m, a, d, r, n) : l, m, a, d, r \in BOOLEAN, n \in 0..MaxArgs}

\* Inputs of list and modify: fetched records that are free, configured on
\* an available NIC, on a NIC the BIOS has disabled, on a NIC no candidate
\* has, and with a two-digit attempt instance
FetchedRecords ==
    {SourceRecord(None, ""),
     SourceRecord(Some(1), "EmbNicEnable"),
     SourceRecord(Some(2), "NicBoot1"),
     SourceRecord(Some(12), "NicBoot1"),
     SourceRecord(Some(3), "Slot1NicBoot1"),
     SourceRecord(Some(2), "Unknown")}

FetchedLists == SeqsUpTo(FetchedRecords, MaxSlots) \ {<<>>}

ListPciLists == {<<Dev0, Dev1>>, <<Dev0, Dev1, Dev0b>>, <<Dev1>>}

\* entries an operator writes by hand
EditedEntries ==
    {NotAdded}
        \cup {Listed("nic1", attemptKey(Some(n)), SourceRecord(Some(n), "NicBoot1")) :
                n \in {1, 2, 12}}

EditedFiles == SeqsUpTo(EditedEntries, MaxFile) \ {<<>>}

(***************************************************************************)
(* Specifications                                                          *)
(***************************************************************************)
InitAlloc ==
    /\ pc = "bootattemptcounter"
    /\ bootsources \in AllocInputs
    /\ allocres = NotRun
    /\ PciIdle /\ SetIdle /\ IscsiIdle /\ ExtIdle

NextAlloc == BootAttemptCounter

SpecAlloc == InitAlloc /\ [][NextAlloc]_vars

InitPci ==
    /\ pc = "pcidevicehelper"
    /\ devicealloc0 \in SeqsUpTo(Candidates, MaxCands)
    /\ devicealloc = devicealloc0
    /\ bios \in BiosSnapshots
    /\ nicsources \in BOOLEAN
    /\ disabledlist = <<>>
    /\ pcires = NotRun
    /\ AllocIdle /\ SetIdle /\ IscsiIdle /\ ExtIdle

NextPci == PciDeviceHelper

SpecPci == InitPci /\ [][NextPci]_vars

InitSet ==
    /\ pc = "setfunction"
    /\ selector \in Selectors
    /\ options \in OptionSets
    /\ args \in SetArgs
    /\ argidx = 0
    /\ processed = <<>>
    /\ setres = NotRun
    /\ committed = FALSE /\ rebooted = FALSE
    /\ AllocIdle /\ PciIdle /\ IscsiIdle /\ ExtIdle

NextSet == SetBegin \/ SetToken \/ SetFinish

SpecSet == InitSet /\ [][NextSet]_vars

Init ==
    /\ pc = "iscsi"
    /\ \E sc \in Scenarios :
        /\ remote0 = sc.remote /\ remote = sc.remote
        /\ basedefault = sc.default
        /\ devicealloc0 = sc.env.alloc /\ devicealloc = sc.env.alloc
        /\ nicsources = sc.env.sources
        /\ pcideviceslist = sc.env.pcilist
    /\ bios = BiosNow
    /\ disabledlist = <<>> /\ pcires = NotRun
    /\ etag = 0
    /\ client = [c \in Clients |-> IdleClient]
    /\ lastop = NoOp
    /\ AllocIdle /\ SetIdle /\ ExtIdle

Next ==
    \E c \in Clients :
        \/ \E opt \in AddOpts : AddFetch(c, opt)
        \/ AddSubmit(c)
        \/ \E opt \in DeleteOpts : DeleteFetch(c, opt)
        \/ DeleteSubmit(c)

Spec == Init /\ [][Next]_vars

InitMap ==
    /\ pc = "collect"
    /\ pcisettingsmap \in Mappings
    /\ caller \in Callers
    /\ collected = <<>>
    /\ collectres = NotRun
    /\ AllocIdle /\ PciIdle /\ SetIdle /\ IscsiIdle /\ ListIdle /\ ValIdle /\ RunIdle /\ ModIdle

NextMap == CollectCandidates

SpecMap == InitMap /\ [][NextMap]_vars

InitList ==
    /\ pc = "default"
    /\ devicealloc0 \in SeqsUpTo(Candidates, MaxCands)
    /\ devicealloc = devicealloc0
    /\ bios \in BiosSnapshots
    /\ nicsources = TRUE
    /\ disabledlist = <<>>
    /\ pcires = NotRun
    /\ pcideviceslist \in PciLists
    /\ remote0 = <<>> /\ remote = <<>> /\ etag = 0 /\ basedefault = <<>>
    /\ client = [c \in Clients |-> IdleClient] /\ lastop = NoOp
    /\ ListIdle
    /\ AllocIdle /\ SetIdle /\ MapIdle /\ ValIdle /\ RunIdle /\ ModIdle

NextList == DefaultListing \/ AddFinalList

SpecList == InitList /\ [][NextList]_vars

InitVal ==
    /\ pc = "validationerror"
    /\ instances0 \in MonolithInstances
    /\ instances = instances0
    /\ valerrs \in SeqsUpTo(ErrSels, MaxErrs) \ {<<>>}
    /\ AllocIdle /\ PciIdle /\ SetIdle /\ IscsiIdle /\ MapIdle /\ ListIdle /\ RunIdle /\ ModIdle

NextVal == SetValidationError

SpecVal == InitVal /\ [][NextVal]_vars

InitRun ==
    /\ pc = "run"
    /\ runopts \in RunInputs
    /\ runlog = <<>>
    /\ runres = NotRun
    /\ AllocIdle /\ PciIdle /\ SetIdle /\ IscsiIdle /\ MapIdle /\ ListIdle /\ ValIdle /\ ModIdle

NextRun == RunValidate \/ RunOperation \/ RunReboot \/ RunLogout

SpecRun == InitRun /\ [][NextRun]_vars

InitMod ==
    /\ remote0 \in FetchedLists
    /\ remote = remote0
    /\ etag = 0
    /\ basedefault = <<>>
    /\ client = [c \in Clients |-> IdleClient] /\ lastop = NoOp
    /\ devicealloc0 = <<EmbNic, SlotNic, OffNic>>
    /\ devicealloc = devicealloc0
    /\ bios = BiosNow
    /\ nicsources = TRUE
    /\ disabledlist = <<>> /\ pcires = NotRun
    /\ \/ /\ pc = "list"
          /\ pcideviceslist \in ListPciLists
          /\ listfile = <<>> /\ written = FALSE
       \/ /\ pc = "modify"
          /\ pcideviceslist = <<Dev0, Dev1>>
          /\ listfile \in EditedFiles /\ written = FALSE
    /\ modbody = <<>> /\ modres = NotRun
    /\ AllocIdle /\ SetIdle /\ MapIdle /\ ListIdle /\ ValIdle /\ RunIdle

NextMod == ListToFile \/ Modify

SpecMod == InitMod /\ [][NextMod]_vars

(***************************************************************************)
(* Properties of the attempt-slot allocator (SpecAlloc)                    *)
(***************************************************************************)
AllocDone == pc = "done" /\ allocres # NotRun

\* a record with no attempt instance set: the field is null or 0
IsFree(rec) ==
    rec.iSCSIAttemptInstance = None \/ rec.iSCSIAttemptInstance = Some(0)

SetPositions == {i \in 1..Len(bootsources) : ~IsFree(bootsources[i])}
SetInstances == {bootsources[i].iSCSIAttemptInstance[1] : i \in SetPositions}

\* C1: whenever at least one record is free, bootattemptcounter returns the
\* lowest unused positive attempt instance: the result n is the instance of
\* no record and every positive integer below n is the instance of some
\* record.  Stated for records of the data model (set instances positive),
\* repeated and non-contiguous instances included.
C1_LowestUnused ==
    (/\ AllocDone
     /\ \E i \in 1..Len(bootsources) : IsFree(bootsources[i])
     /\ \A n \in SetInstances : n > 0)
        => /\ allocres.kind = "return"
           /\ allocres.val \notin SetInstances
           /\ \A m \in 1..(allocres.val - 1) : m \in SetInstances

\* C2: when every record has a set attempt instance, whatever the values,
\* bootattemptcounter raises NicMissingOrConfigurationError and returns no
\* number.
C2_AllSetRaises ==
    (AllocDone /\ Cardinality(SetPositions) = Len(bootsources))
        => allocres = Raised("NicMissingOrConfigurationError")

\* every record set, with values that leave gaps in 1..size, and the raise
C2_Witness ==
    /\ AllocDone
    /\ Len(bootsources) >= 2
    /\ Cardinality(SetPositions) = Len(bootsources)
    /\ \E m \in 1..Len(bootsources) : m \notin SetInstances
    /\ allocres.kind = "raise"

\* C3 as stated: for a sequence of any length with no attempt instance
\* set, bootattemptcounter returns 1.
C3_NoneSetReturnsOne ==
    (AllocDone /\ SetPositions = {}) => allocres = Returned(1)

\* C3 amended: for a sequence of at least one record with no attempt
\* instance set, bootattemptcounter returns 1; for the empty sequence it
\* raises NicMissingOrConfigurationError.
C3_NoneSetNonEmptyReturnsOne ==
    (AllocDone /\ SetPositions = {})
        => IF Len(bootsources) >= 1
           THEN allocres = Returned(1)
           ELSE allocres = Raised("NicMissingOrConfigurationError")

\* several free records, one of them holding 0 instead of null, result 1
C3_Witness ==
    /\ AllocDone
    /\ Len(bootsources) >= 2
    /\ SetPositions = {}
    /\ \E i \in 1..Len(bootsources) : bootsources[i].iSCSIAttemptInstance = Some(0)
    /\ allocres = Returned(1)

\* C4: when exactly the instances 1..k are set, each once and in any
\* record positions, and k < size, bootattemptcounter returns k + 1.
C4_ContiguousReturnsNext ==
    \A k \in 0..MaxSize :
        (/\ AllocDone
         /\ k < Len(bootsources)
         /\ SetInstances = 1..k
         /\ Cardinality(SetPositions) = k)
            => allocres = Returned(k + 1)

\* instances 1..k with k >= 2 stored out of order, and the result k + 1
C4_Witness ==
    /\ AllocDone
    /\ \E k \in 2..MaxSize :
        /\ k < Len(bootsources)
        /\ SetInstances = 1..k
        /\ Cardinality(SetPositions) = k
        /\ allocres = Returned(k + 1)
    /\ \E i, j \in SetPositions :
        /\ i < j
        /\ bootsources[i].iSCSIAttemptInstance[1] > bootsources[j].iSCSIAttemptInstance[1]

(***************************************************************************)
(* Properties of pcidevicehelper (SpecPci)                                 *)
(***************************************************************************)
PciReturned == pc = "done" /\ pcires.kind = "return"

\* a candidate has a primary association key when its first association is
\* a string or a mapping with the key PreBootNetwork
HasPrimaryKey(cand) ==
    cand.Associations[1].kind = "str" \/ cand.Associations[1].key = "PreBootNetwork"

PrimaryKey(cand) ==
    IF cand.Associations[1].kind = "str"
    THEN cand.Associations[1].s
    ELSE cand.Associations[1].val

\* C5: after pcidevicehelper returns, a candidate whose primary association
\* key is "Disabled" in the BIOS snapshot is in the disabled list and not in
\* the remaining candidate list; a candidate whose key is absent from the
\* snapshot is in the remaining list and not in the disabled list.
C5_DisabledSeparated ==
    PciReturned =>
        \A i \in 1..Len(devicealloc0) :
            LET cand == devicealloc0[i]
            IN HasPrimaryKey(cand) =>
                /\ (PrimaryKey(cand) \in DOMAIN bios /\ bios[PrimaryKey(cand)] = "Disabled")
                      => (cand \in Range(disabledlist) /\ cand \notin Range(devicealloc))
                /\ PrimaryKey(cand) \notin DOMAIN bios
                      => (cand \in Range(devicealloc) /\ cand \notin Range(disabledlist))

\* a disabled candidate keyed through PreBootNetwork, listed twice, next to
\* a candidate whose key the snapshot does not have
C5_Witness ==
    /\ PciReturned
    /\ \E i, j \in 1..Len(devicealloc0) :
        /\ i # j
        /\ devicealloc0[i] = devicealloc0[j]
        /\ devicealloc0[i].Associations[1].kind = "dict"
        /\ devicealloc0[i] \in Range(disabledlist)
    /\ \E i \in 1..Len(devicealloc0) :
        /\ HasPrimaryKey(devicealloc0[i])
        /\ PrimaryKey(devicealloc0[i]) \notin DOMAIN bios
        /\ devicealloc0[i] \in Range(devicealloc)

(***************************************************************************)
(* Properties of the path-to-patch builder (SpecSet)                       *)
(***************************************************************************)
\* the token loop reached the try block for entry e (a type is selected)
Parsed(e) == e.outcome # "NothingSelectedError"

\* path side and raw literal of a token: the text before and after the
\* first "="
TokPath(tok) == Split1(tok, "=")[1]
TokLiteral(tok) == Split1(tok, "=")[2]

\* the literal with surrounding quote characters trimmed
Trimmed(tok) == Strip(TokLiteral(tok), QuoteChars)

IsBoolLiteral(v) == Lower(v) = sTrue \/ Lower(v) = sFalse
IsBracketed(v) == Len(v) >= 1 /\ v[1] = "[" /\ v[Len(v)] = "]"
IsPlainLiteral(v) == ~IsBoolLiteral(v) /\ ~IsBracketed(v)

\* the n-level nested single-key mapping {k1: {k2: ... {kn: v}}}, built
\* from the outermost key inwards
RECURSIVE Nest(_, _)
Nest(keys, v) ==
    IF Len(keys) = 1 THEN Map(keys[1], v)
    ELSE Map(Head(keys), Nest(Tail(keys), v))

\* the keys of a nested mapping, outermost first, and its leaf value
RECURSIVE KeysOf(_)
KeysOf(m) == IF m.kind = "map" THEN <<m.key>> \o KeysOf(m.val) ELSE <<>>

RECURSIVE LeafOf(_)
LeafOf(m) == IF m.kind = "map" THEN LeafOf(m.val) ELSE m

\* the path the builder works on: the token's path, behind "Attributes/"
\* when the selected type is the BIOS type and the token does not contain
\* "attributes" in any letter case
WorkingPath(tok) ==
    IF StartsWith(Lower(selector), sBiosDot) /\ ~HasSubstr(Lower(tok), sAttributes)
    THEN sAttributesSlash \o TokPath(tok)
    ELSE TokPath(tok)

C7_BooleanLeaf ==
    \A k \in 1..Len(processed) :
        LET e == processed[k]
        IN (/\ Parsed(e)
            /\ HasChar(e.token, "=")
            /\ IsBoolLiteral(Trimmed(e.token)))
               => /\ e.outcome = "loadset"
                  /\ LeafOf(e.seldict) = Bool(Lower(Trimmed(e.token)) = sTrue)

\* a quoted or capitalised boolean literal under a nested path
C7_Witness ==
    \E k \in 1..Len(processed) :
        LET e == processed[k]
        IN /\ e.outcome = "loadset"
           /\ HasChar(e.token, "=")
           /\ Trimmed(e.token) # sTrue /\ Lower(Trimmed(e.token)) = sTrue
           /\ Len(KeysOf(e.seldict)) >= 2
           /\ LeafOf(e.seldict) = Bool(TRUE)

\* number of occurrences of c in s
RECURSIVE Occurrences(_, _)
Occurrences(s, c) ==
    IF s = <<>> THEN 0
    ELSE (IF Head(s) = c THEN 1 ELSE 0) + Occurrences(Tail(s), c)

\* C8: a non-boolean literal (quotes trimmed) that starts with "[" and ends
\* with "]" becomes the ordered list of the pieces of the text between the
\* brackets cut at every ",": the pieces contain no ",", there is one more
\* piece than there are commas, and joined by "," they give that text back.
\* A literal not delimited by both brackets stays a single string.
C8_ListLeaf ==
    \A k \in 1..Len(processed) :
        LET e == processed[k]
            lit == Trimmed(e.token)
            leaf == LeafOf(e.seldict)
        IN (e.outcome = "loadset" /\ ~IsBoolLiteral(lit))
               => IF IsBracketed(lit)
                  THEN /\ leaf.kind = "list"
                       /\ Len(leaf.l) = Occurrences(Inner(lit), ",") + 1
                       /\ \A i \in 1..Len(leaf.l) : ~HasChar(leaf.l[i], ",")
                       /\ Join(leaf.l, ",") = Inner(lit)
                  ELSE leaf = Str(lit)

\* the literal [1,2,3] built into the list "1", "2", "3"
C8_Witness ==
    \E k \in 1..Len(processed) :
        LET e == processed[k]
        IN /\ e.outcome = "loadset"
           /\ Trimmed(e.token) = <<"[","1",",","2",",","3","]">>
           /\ LeafOf(e.seldict) = List(<< <<"1">>, <<"2">>, <<"3">> >>)

\* C9: a token is split at its first "=" only: when the literal itself
\* contains "=", the token is accepted and built into a patch whose leaf
\* comes from the whole remainder.
C9_SplitAtFirstEquals ==
    \A k \in 1..Len(processed) :
        LET e == processed[k]
        IN (/\ Parsed(e)
            /\ HasChar(e.token, "=")
            /\ HasChar(TokLiteral(e.token), "="))
               => /\ e.outcome = "loadset"
                  /\ LeafOf(e.seldict) = Str(Trimmed(e.token))

\* C10: a token with no "=", or whose path side is empty after trimming
\* whitespace, fails with InvalidCommandLineError and is not handed to
\* loadset.
C10_MalformedTokenRejected ==
    \A k \in 1..Len(processed) :
        LET e == processed[k]
        IN (/\ Parsed(e)
            /\ \/ ~HasChar(e.token, "=")
               \/ Strip(TokPath(e.token), Whitespace) = <<>>)
               => /\ e.outcome = "InvalidCommandLineError"
                  /\ setres = Raised("InvalidCommandLineError")

\* C11: with the BIOS type selected, a token whose path side does not
\* reference the Attributes container is built into a patch with one more
\* level than the path has segments, the outermost key being the Attributes
\* segment, whatever the literal is; a path that references the container,
\* and any path under another type, gets no extra level.
C11_AttributesPrefix ==
    \A k \in 1..Len(processed) :
        LET e == processed[k]
            keys == KeysOf(e.seldict)
            segs == Split(TokPath(e.token), "/")
        IN e.outcome = "loadset" =>
              IF /\ StartsWith(Lower(selector), sBiosDot)
                 /\ ~HasSubstr(Lower(TokPath(e.token)), sAttributes)
              THEN /\ Len(keys) = Len(segs) + 1
                   /\ Lower(keys[1]) = sAttributes
              ELSE Len(keys) = Len(segs)

\* the tokens of the invocation as they were typed: the loop rewrites
\* args[count] only for tokens it has handled
OrigArgs ==
    [k \in 1..Len(args) |->
        IF k <= Len(processed) THEN processed[k].token ELSE args[k]]

C18_AdminPasswordNeedsOld ==
    (/\ \E i \in 1..Len(OrigArgs) :
            StartsWith(Lower(OrigArgs[i]), sAdminPassword \o <<"=">>)
     /\ \A i \in 1..Len(OrigArgs) :
            ~StartsWith(Lower(OrigArgs[i]), sOldAdminPassword \o <<"=">>)) =>
        /\ processed = <<>>
        /\ ~committed /\ ~rebooted
        /\ argidx = 0
        /\ pc = "done" => setres = Raised("InvalidCommandLineError")

\* the AdminPassword token in second place, behind a well-formed token,
\* and the command stopped before the loop
C18_Witness ==
    /\ pc = "done"
    /\ Len(args) = 2
    /\ ~StartsWith(Lower(args[1]), Append(sAdminPassword, "="))
    /\ StartsWith(Lower(args[2]), Append(sAdminPassword, "="))
    /\ HasChar(args[1], "=")
    /\ selector # <<>>
    /\ options.filter # "bad"
    /\ setres = Raised("InvalidCommandLineError")
    /\ processed = <<>>

\* number of set records whose instance satisfies the test
NumBelow(n) ==
    Cardinality({p \in SetPositions : bootsources[p].iSCSIAttemptInstance[1] < n})
NumUpTo(n) ==
    Cardinality({p \in SetPositions : bootsources[p].iSCSIAttemptInstance[1] <= n})

\* position i of the ascending list of set instances exists and holds i:
\* fewer than i instances are below i and at least i are at most i
UsedHolds(i) == NumBelow(i) < i /\ i <= NumUpTo(i)

\* C19: with at least one set instance and at least one free record,
\* bootattemptcounter returns the smallest i in 1..size for which position
\* i of the ascending list of set instances is missing or does not hold i.
C19_FirstGap ==
    (/\ AllocDone
     /\ SetPositions # {}
     /\ Cardinality(SetPositions) < Len(bootsources))
        => /\ allocres.kind = "return"
           /\ allocres.val \in 1..Len(bootsources)
           /\ ~UsedHolds(allocres.val)
           /\ \A i \in 1..(allocres.val - 1) : UsedHolds(i)

\* instances 1 and 3 set among four records with two free: the result is 2
C19_Witness ==
    /\ AllocDone
    /\ Len(bootsources) = 4
    /\ SetInstances = {1, 3}
    /\ Cardinality(SetPositions) = 2
    /\ allocres = Returned(2)

\* C25: when the handling of the j-th token of a set invocation raises, no
\* patch built from tokens 1..j-1 has been handed to loadset and left
\* staged, and commit has not been invoked.
C25_AllOrNothing ==
    (pc = "done" /\ setres.kind = "raise") =>
        /\ \A i \in 1..(Len(processed) - 1) :
              ~(processed[i].outcome = "loadset" /\ processed[i].contents = "contents")
        /\ ~committed

(***************************************************************************)
(* Properties of add and delete on the iSCSI settings resource (Spec)      *)
(***************************************************************************)
InstanceAt(srcs, i) == srcs[i].iSCSIAttemptInstance

\* C12: a delete of attempt instance N that submits fetched the record
\* sequence with its etag, replaced every record whose attempt instance is N
\* by the base-configuration default of the same index, left every other
\* record as fetched and in place, and sent the whole sequence in one PUT
\* whose If-Match is the etag of that fetch; once applied it is the resource.
C12_DeleteReplacesOnlyTarget ==
    (lastop.op = "delete" /\ lastop.write.method # "none") =>
        LET n == lastop.opt[1]
            body == lastop.write.body
        IN /\ lastop.write.method = "PUT"
           /\ lastop.write.ifmatch = Some(lastop.fetchtag)
           /\ Len(body) = Len(lastop.fetched)
           /\ \A i \in 1..Len(body) :
                IF InstanceAt(lastop.fetched, i) = Some(n)
                THEN body[i] = basedefault[i]
                ELSE body[i] = lastop.fetched[i]
           /\ lastop.write.accepted => remote = body

C12_Witness ==
    /\ lastop.op = "delete" /\ lastop.opt = <<3>>
    /\ lastop.res = Returned(0) /\ lastop.write.accepted
    /\ lastop.fetched = Instances(<<Some(1), None, Some(3), None>>)
    /\ remote = [lastop.fetched EXCEPT ![3] = DefaultRecord(3, None)]

\* C13: no write is applied to the settings resource unless it was computed
\* from a fetch of the version the resource holds when the write arrives, so
\* another client's change made after the fetch is never overwritten.
C13_NoLostUpdate ==
    lastop.write.accepted => lastop.fetchtag = lastop.write.servertag

\* C14: an add whose --add value is not an integer in 1..len(final
\* candidate list) fails with NicMissingOrConfigurationError and issues no
\* PATCH.
C14_AddIndexValidated ==
    (lastop.op = "add" /\ lastop.opt \notin {<<n>> : n \in 1..Len(lastop.final)}) =>
        /\ lastop.res.kind = "raise"
        /\ lastop.res.err = "NicMissingOrConfigurationError"
        /\ lastop.write = NoWrite

\* C16: when the iSCSI source resource gives no iSCSINicSources, an add
\* that reaches pcidevicehelper fails with NicMissingOrConfigurationError
\* "No iSCSI nic sources available.", the candidate list is as built (no
\* candidate removed) and no PATCH has been issued.
C16_NoNicSources ==
    (lastop.op = "add" /\ ~nicsources
        /\ bootattemptcounter(lastop.fetched).kind # "raise") =>
        /\ lastop.res = NicError("No iSCSI nic sources available.")
        /\ pcires = lastop.res
        /\ devicealloc = devicealloc0
        /\ disabledlist = <<>>
        /\ lastop.write = NoWrite

C16_Witness ==
    /\ lastop.op = "add" /\ ~nicsources
    /\ lastop.res = NicError("No iSCSI nic sources available.")
    /\ removalOf(devicealloc0, bios) # <<>>

\* C17: a delete whose number no fetched record carries fails with
\* NicMissingOrConfigurationError and issues no PUT; a value of 0 or a
\* non-integer is rejected before the record sequence is fetched.
C17_DeleteNotFound ==
    (lastop.op = "delete") =>
        /\ (lastop.opt = <<>> \/ lastop.opt = <<0>>) =>
              /\ lastop.res.kind = "raise"
              /\ lastop.res.err = "NicMissingOrConfigurationError"
              /\ lastop.fetched = <<>>
              /\ lastop.write = NoWrite
        /\ (/\ lastop.opt # <<>>
            /\ lastop.fetched # <<>>
            /\ \A i \in 1..Len(lastop.fetched) :
                  InstanceAt(lastop.fetched, i) # Some(lastop.opt[1])) =>
              /\ lastop.res = NicError("The given attempt instance does not exist.")
              /\ lastop.write = NoWrite

C17_Witness ==
    /\ lastop.op = "delete" /\ lastop.opt = <<2>>
    /\ lastop.fetched = Instances(<<Some(1), None, Some(3), None>>)
    /\ lastop.res = NicError("The given attempt instance does not exist.")

IsFreeRecord(r) == ~Truthy(r.iSCSIAttemptInstance)

\* C20: when every record starts free and no base-configuration default
\* carries an attempt instance, in every reachable state the record at
\* 0-based index i is free or has attempt instance i+1 and attempt name
\* str(i+1); so the set instances are pairwise distinct and lie in 1..size.
C20_InstanceIsPosition ==
    (/\ \A i \in 1..Len(remote0) : IsFreeRecord(remote0[i])
     /\ \A i \in 1..Len(basedefault) : basedefault[i].iSCSIAttemptInstance = None) =>
        /\ \A i \in 1..Len(remote) :
              \/ IsFreeRecord(remote[i])
              \/ /\ remote[i].iSCSIAttemptInstance = Some(i)
                 /\ remote[i].iSCSIAttemptName = pyStr(i)
        /\ \A i, j \in 1..Len(remote) :
              (i # j /\ ~IsFreeRecord(remote[i]) /\ ~IsFreeRecord(remote[j])) =>
                  remote[i].iSCSIAttemptInstance # remote[j].iSCSIAttemptInstance
        /\ \A i \in 1..Len(remote) :
              IsFreeRecord(remote[i]) \/ remote[i].iSCSIAttemptInstance[1] \in 1..Len(remote)

C20_Witness ==
    /\ \A i \in 1..Len(remote0) : IsFreeRecord(remote0[i])
    /\ basedefault = Defaults(Len(remote0))
    /\ lastop.op = "delete" /\ lastop.opt = <<1>> /\ lastop.write.accepted
    /\ lastop.fetched[1].iSCSIAttemptInstance = Some(1)
    /\ IsFreeRecord(remote[1])
    /\ remote[2].iSCSIAttemptInstance = Some(2)
    /\ remote[2].iSCSIAttemptName = "2"

\* C21: a successful add with selection index N changes exactly one record
\* of the fetched sequence, the lowest-index record without attempt
\* instance: its attempt instance is the allocator's result, its attempt
\* name the decimal string of that number and its NIC source element 1 of
\* the N-th final candidate's Associations when element 0 is a mapping, else
\* element 0; every other record is submitted as fetched in one PATCH.
C21_AddChangesOneRecord ==
    (lastop.op = "add" /\ lastop.write.method # "none") =>
        LET body == lastop.write.body
            got == lastop.fetched
            n == lastop.opt[1]
            free == {i \in 1..Len(got) : IsFreeRecord(got[i])}
        IN /\ lastop.write.method = "PATCH"
           /\ Len(body) = Len(got)
           /\ free # {}
           /\ lastop.opt # <<>> /\ n \in 1..Len(lastop.final)
           /\ \E f \in free :
                /\ \A i \in free : f <= i
                /\ \A i \in 1..Len(got) : i # f => body[i] = got[i]
                /\ body[f].iSCSIAttemptInstance = Some(bootattemptcounter(got).val)
                /\ body[f].iSCSIAttemptName = pyStr(bootattemptcounter(got).val)
                /\ LET assoc == lastop.final[n].Associations
                   IN body[f].iSCSINicSource =
                        IF assoc[1].kind = "dict" THEN assoc[2].s ELSE assoc[1].s

\* C28: whenever bootattemptcounter is given at least one free record it
\* returns an integer in 1..size, whatever the set values are (repeated,
\* with gaps, negative or larger than size); the walk never ends without a
\* value.
C28_ResultInRange ==
    (AllocDone /\ \E i \in 1..Len(bootsources) : IsFree(bootsources[i])) =>
        /\ allocres.kind = "return"
        /\ allocres.val \in 1..Len(bootsources)

\* a negative, a repeated and a larger-than-size value next to a free record
C28_Witness ==
    /\ AllocDone /\ Len(bootsources) = 4
    /\ bootsources[1].iSCSIAttemptInstance = Some(MaxInst)
    /\ bootsources[2].iSCSIAttemptInstance = Some(-1)
    /\ bootsources[3].iSCSIAttemptInstance = None
    /\ bootsources[4].iSCSIAttemptInstance = Some(-1)
    /\ allocres = Returned(1)

CountOf(l, x) == Cardinality({i \in 1..Len(l) : l[i] = x})

\* the elements of l that are in set S, in the order of l
RECURSIVE Restrict(_, _)
Restrict(l, S) ==
    IF l = <<>> THEN <<>>
    ELSE (IF Head(l) \in S THEN <<Head(l)>> ELSE <<>>) \o Restrict(Tail(l), S)

\* C22: after pcidevicehelper returns, the remaining candidate list and the
\* disabled list have no candidate in common, every candidate occurs in the
\* two lists together as often as in the list before the call and no other
\* candidate occurs, and each list keeps the order of the list before.
C22_Partition ==
    PciReturned =>
        /\ Range(devicealloc) \cap Range(disabledlist) = {}
        /\ Range(devicealloc) \cup Range(disabledlist) = Range(devicealloc0)
        /\ \A x \in Range(devicealloc0) :
              CountOf(devicealloc0, x) = CountOf(devicealloc, x) + CountOf(disabledlist, x)
        /\ devicealloc = Restrict(devicealloc0, Range(devicealloc))
        /\ disabledlist = Restrict(devicealloc0, Range(disabledlist))

\* a disabled candidate listed twice around an available one
C22_Witness ==
    /\ PciReturned
    /\ Len(devicealloc0) = 3
    /\ devicealloc0[1] = devicealloc0[3]
    /\ disabledlist = <<devicealloc0[1], devicealloc0[3]>>
    /\ devicealloc = <<devicealloc0[2]>>

(***************************************************************************)
(* Properties of the candidate-list builder (SpecMap)                      *)
(***************************************************************************)
\* an entry the candidate list draws from: its associations contain
\* EmbNicEnable or EmbNicConfig, or its first association matches one of the
\* three patterns
Qualifies(item) ==
    /\ item.hasAssociations
    /\ \/ \E i \in 1..Len(item.Associations) :
              item.Associations[i] \in {sEmbNicEnable, sEmbNicConfig}
       \/ /\ item.Associations # <<>>
          /\ nicPattern(item.Associations[1])

RECURSIVE OncePerEntry(_)
OncePerEntry(map) ==
    IF map = <<>> THEN <<>>
    ELSE (IF Qualifies(Head(map)) THEN Head(map).Subinstances ELSE <<>>)
            \o OncePerEntry(Tail(map))

\* C24: the candidate list built by add, list and default holds, in mapping
\* order, every subinstance of every qualifying entry exactly once (also
\* when the entry meets both conditions) and nothing of any other entry.
C24_CandidatesOncePerEntry ==
    (pc = "done" /\ collectres.kind = "return") =>
        collected = OncePerEntry(pcisettingsmap)

(***************************************************************************)
(* Properties of the default listing against add (SpecList)                *)
(***************************************************************************)
Numbered == SelectSeq(printed, LAMBDA line : "count" \in DOMAIN line)

\* C23: on the same server the number [k] of the default listing names the
\* pair that --add k selects: there are as many numbered lines as elements
\* of make_final_list, the k-th numbered line carries k, was printed for
\* element k-1 of make_final_list, and shows a PCI device whose
\* UEFIDevicePath is that candidate's CorrelatableID.
C23_ListingMatchesAdd ==
    (pc = "done" /\ listres.kind = "return") =>
        /\ Len(Numbered) = Len(finallist)
        /\ \A k \in 1..Len(Numbered) :
              /\ Numbered[k].count = k
              /\ Numbered[k].item = finallist[k]
              /\ \E i \in 1..Len(pcideviceslist) :
                    /\ pcideviceslist[i].Name = Numbered[k].name
                    /\ pcideviceslist[i].UEFIDevicePath = finallist[k].CorrelatableID

\* one candidate on two PCI devices, another on none, a third on one
C23_Witness ==
    /\ pc = "done" /\ listres.kind = "return"
    /\ pcideviceslist = <<Dev0, Dev1, Dev0b>>
    /\ Len(finallist) = 3
    /\ finallist[1] = finallist[2]
    /\ finallist[3].CorrelatableID # finallist[1].CorrelatableID
    /\ <<Numbered[1].name, Numbered[2].name, Numbered[3].name>> = <<"nic0", "nic0b", "nic1">>
    /\ disabledlist # <<>>

(***************************************************************************)
(* Properties of the ValidationError handler (SpecVal)                     *)
(***************************************************************************)
IsHpBios(inst) == HasSubstr(Lower(inst.maj_type), sHpBiosDot)

OtherPaths(patches) == SelectSeq(patches, LAMBDA q : q.path # sOldAdminPasswordPath)

\* C30: after a validation error that carries an error for AdminPassword, no
\* "hpbios." instance holds a pending patch with path /OldAdminPassword,
\* however many such patches it held and wherever they stood, and its
\* pending patches for other paths are as before.
C30_OldAdminPasswordPurged ==
    (/\ pc = "done"
     /\ \E e \in 1..Len(valerrs) : Lower(valerrs[e]) = sAdminPassword) =>
        \A k \in 1..Len(instances) :
            IsHpBios(instances[k]) =>
                /\ \A i \in 1..Len(instances[k].patches) :
                      instances[k].patches[i].path # sOldAdminPasswordPath
                /\ OtherPaths(instances[k].patches) = OtherPaths(instances0[k].patches)

(***************************************************************************)
(* Properties of IscsiConfigCommand.run (SpecRun)                          *)
(***************************************************************************)
Operations == {"list", "modify", "add", "delete", "default"}

OpAt == {i \in 1..Len(runlog) : runlog[i].ev \in Operations}
EvAt(ev) == {i \in 1..Len(runlog) : runlog[i].ev = ev}

\* C29: a run executes at most one of list, modify, add, delete and
\* default, chosen in that precedence, default only with no flag and no
\* argument; reboot is invoked only when --reboot was given and after the
\* operation completed without raising, logout after it; when the operation
\* raises neither reboot nor logout is invoked.
C29_OneOperationThenReboot ==
    /\ Cardinality(OpAt) <= 1
    /\ \A i \in OpAt :
          /\ runlog[i].ev = "list" <=> runopts.list
          /\ runlog[i].ev = "modify" <=> (~runopts.list /\ runopts.modify)
          /\ runlog[i].ev = "add" <=> (~runopts.list /\ ~runopts.modify /\ runopts.add)
          /\ runlog[i].ev = "delete" <=>
                (~runopts.list /\ ~runopts.modify /\ ~runopts.add /\ runopts.delete)
          /\ runlog[i].ev = "default" <=>
                (/\ ~runopts.list /\ ~runopts.modify /\ ~runopts.add /\ ~runopts.delete
                 /\ runopts.nargs = 0)
    /\ \A r \in EvAt("reboot") :
          /\ runopts.reboot
          /\ \A i \in OpAt : i < r /\ runlog[i].ok
    /\ \A l \in EvAt("logout") :
          /\ \A i \in OpAt : i < l /\ runlog[i].ok
          /\ \A r \in EvAt("reboot") : r < l
          /\ runopts.reboot => EvAt("reboot") # {}
    /\ (\E i \in OpAt : ~runlog[i].ok) => (EvAt("reboot") = {} /\ EvAt("logout") = {})
    /\ (pc = "done" /\ runres.kind = "return") => EvAt("logout") = {Len(runlog)}

\* modify and add both given with --reboot: modify ran, then reboot, then
\* logout
C29_Witness ==
    /\ pc = "done" /\ runres = Returned(0)
    /\ ~runopts.list /\ runopts.modify /\ runopts.add /\ runopts.delete /\ runopts.reboot
    /\ runlog = <<Invoked("validate", TRUE), Invoked("modify", TRUE),
                  Invoked("reboot", TRUE), Invoked("logout", TRUE)>>

(***************************************************************************)
(* Properties of list and modify (SpecMod)                                 *)
(***************************************************************************)
\* C26: when the file written by --list -f is loaded unchanged by --modify
\* on the same remote state, the submitted record sequence has the length
\* of the fetched one and equals it element by element.
C26_ListModifyRoundTrip ==
    (pc = "done" /\ written) =>
        /\ modres.kind = "return"
        /\ Len(modbody) = Len(remote0)
        /\ modbody = remote0

\* the number written after "Attempt " in a key
RECURSIVE numberOf(_, _)
numberOf(chars, acc) ==
    IF chars = <<>> THEN acc ELSE numberOf(Tail(chars), 10 * acc + DigitVal(Head(chars)))

KeyNumber(key) == numberOf(SubSeq(key, Len(sAttempt) + 1, Len(key)), 0)

\* C27: the record under "Attempt N" is in the submitted body exactly when
\* some fetched record has attempt instance N, two-digit N included.
C27_AcceptedIffInstanceExists ==
    (pc = "done" /\ ~written /\ modres.kind = "return") =>
        \A k \in 1..Len(listfile) :
            listfile[k].attempts # <<>> =>
                LET n == KeyNumber(listfile[k].attempts[1].key)
                IN (modbody[k] = listfile[k].attempts[1].value)
                      <=> (\E i \in 1..Len(remote0) :
                              remote0[i].iSCSIAttemptInstance = Some(n))

====
